---- MODULE Spec2Model ----
(***************************************************************************)
(* Verification model of pulumi-aws-infra: Vpc construction (subnet        *)
(* partitioning, internet/NAT gateway wiring), the container image build   *)
(* cache and the task-definition helpers.                                  *)
(***************************************************************************)
EXTENDS Integers, Sequences, FiniteSets, TLC

\* ------------------------------------------------------------------------
\* Bounds of the model
\* ------------------------------------------------------------------------
MaxZones == 3
MaxSpecs == 3
MaxContainers == 2
MaxRequests == 3

\* ------------------------------------------------------------------------
\* Optional (possibly undefined) values: <<>> is undefined, <<v>> is v.
\* ------------------------------------------------------------------------
None == <<>>
Some(v) == <<v>>
IsSome(o) == Len(o) > 0
Get(o) == o[1]
Opt(S) == {None} \cup {Some(v) : v \in S}

RECURSIVE Pow2(_)
Pow2(n) == IF n <= 0 THEN 1 ELSE 2 * Pow2(n - 1)

Min(a, b) == IF a < b THEN a ELSE b

\* ------------------------------------------------------------------------
\* CIDR blocks: the first address (as a number) and the prefix length.
\* ------------------------------------------------------------------------
Cidr(a, b, c, d, mask) ==
    [start |-> ((a * 256 + b) * 256 + c) * 256 + d, mask |-> mask]

BlockSize(block) == Pow2(32 - block.mask)
BlockEnd(block) == block.start + BlockSize(block)

Contains(outer, inner) ==
    /\ outer.start <= inner.start
    /\ BlockEnd(inner) <= BlockEnd(outer)

Overlap(b1, b2) == b1.start < BlockEnd(b2) /\ b2.start < BlockEnd(b1)

DefaultCidrBlock == Cidr(10, 0, 0, 0, 16)

DefaultSubnets == << [type |-> "public", cidrMask |-> None],
                     [type |-> "private", cidrMask |-> None] >>

\* ------------------------------------------------------------------------
\* Inputs of the Vpc constructor
\* ------------------------------------------------------------------------
VpcSubnetType == {"public", "private", "isolated"}

\* The subnet specs the program may pass: each type without a mask, and a
\* public spec with an explicit /28 mask.
VpcSubnetArgs ==
    [type : VpcSubnetType, cidrMask : {None}]
        \cup {[type |-> "public", cidrMask |-> Some(28)]}

CidrBlocks == { Cidr(10, 0, 0, 0, 24), Cidr(10, 0, 1, 0, 27), Cidr(10, 0, 2, 0, 30) }

SubnetLists == UNION { [1..n -> VpcSubnetArgs] : n \in 0..MaxSpecs }

VpcArgs == [ cidrBlock : Opt(CidrBlocks),
             numberOfAvailabilityZones : Opt(1..MaxZones),
             numberOfNatGateways : Opt(0..(MaxZones + 1)),
             subnets : Opt(SubnetLists) ]

\* ------------------------------------------------------------------------
\* CIDR/topology partitioner (VpcTopology.createSubnets)
\* ------------------------------------------------------------------------

\* Smallest k with 2^k >= n.
RECURSIVE CeilLog2From(_, _)
CeilLog2From(k, n) == IF Pow2(k) >= n THEN k ELSE CeilLog2From(k + 1, n)
CeilLog2(n) == CeilLog2From(0, n)

\* The smallest mask that lets zones * subnet-types equally sized blocks fit
\* within the parent block (count rounded up to a power of two).
computeCidrMaskForSubnets(parent, zones, specs) ==
    parent.mask + CeilLog2(zones * Len(specs))

subnetMask(parent, zones, specs, s) ==
    IF IsSome(specs[s].cidrMask) THEN Get(specs[s].cidrMask)
    ELSE computeCidrMaskForSubnets(parent, zones, specs)

\* The k-th chunk (1-based) goes to spec ((k-1) \div zones) + 1 in zone
\* (k-1) % zones: each spec is spread over all the zones before the next
\* spec is served, in input order.
chunkSpec(zones, k) == ((k - 1) \div zones) + 1
chunkZone(zones, k) == (k - 1) % zones

AlignUp(addr, size) == ((addr + size - 1) \div size) * size

\* Walk the chunks in order; 'cursor' is the first address not yet handed
\* out.  The walk stops with ok = FALSE when a chunk does not fit.
RECURSIVE assignCidrBlocks(_, _, _, _, _, _)
assignCidrBlocks(parent, zones, specs, k, cursor, acc) ==
    IF k > zones * Len(specs) THEN [ok |-> TRUE, subnets |-> acc]
    ELSE LET s == chunkSpec(zones, k)
             mask == subnetMask(parent, zones, specs, s)
         IN  IF mask > 32 \/ mask < 0 THEN [ok |-> FALSE, subnets |-> acc]
             ELSE LET size == Pow2(32 - mask)
                      start == AlignUp(cursor, size)
                      block == [start |-> start, mask |-> mask]
                  IN  IF start + size > BlockEnd(parent)
                      THEN [ok |-> FALSE, subnets |-> acc]
                      ELSE assignCidrBlocks(parent, zones, specs, k + 1, start + size,
                               Append(acc, [type |-> specs[s].type,
                                            spec |-> s,
                                            zone |-> chunkZone(zones, k),
                                            cidrBlock |-> block,
                                            routes |-> <<>>]))

partition(parent, zones, specs) ==
    assignCidrBlocks(parent, zones, specs, 1, parent.start, <<>>)

\* ------------------------------------------------------------------------
\* Vpc (constructor, createInternetGateway, createNatGateways)
\* ------------------------------------------------------------------------
DefaultNumberOfAvailabilityZones == 2

RECURSIVE SelectType(_, _)
SelectType(subnets, type) ==
    IF subnets = <<>> THEN <<>>
    ELSE IF Head(subnets).type = type
         THEN <<Head(subnets)>> \o SelectType(Tail(subnets), type)
         ELSE SelectType(Tail(subnets), type)

RECURSIVE Repeat(_, _)
Repeat(x, n) == IF n <= 0 THEN <<>> ELSE <<x>> \o Repeat(x, n - 1)

\* The Vpc object before its constructor has run.
NewVpc ==
    [ status |-> "new", error |-> "none", declared |-> <<>>,
      publicSubnets |-> <<>>, privateSubnets |-> <<>>, isolatedSubnets |-> <<>>,
      internetGateway |-> None, natGateways |-> <<>> ]

Throw(v, error) == [v EXCEPT !.status = "error", !.error = error]

cidrBlockOf(args) ==
    IF IsSome(args.cidrBlock) THEN Get(args.cidrBlock) ELSE DefaultCidrBlock

numberOfAvailabilityZonesOf(args) ==
    IF IsSome(args.numberOfAvailabilityZones)
    THEN Get(args.numberOfAvailabilityZones)
    ELSE DefaultNumberOfAvailabilityZones

\* Mutant: the gateway count defaults to the literal default zone count.
numberOfNatGatewaysOf_literal(args) ==
    IF IsSome(args.numberOfNatGateways)
    THEN Get(args.numberOfNatGateways)
    ELSE DefaultNumberOfAvailabilityZones

numberOfNatGatewaysOf(args) ==
    IF IsSome(args.numberOfNatGateways)
    THEN Get(args.numberOfNatGateways)
    ELSE numberOfAvailabilityZonesOf(args)

subnetsOf(args) ==
    IF IsSome(args.subnets) THEN Get(args.subnets) ELSE DefaultSubnets

\* Mutant: the bound is off by one.
tooManyNatGateways_offByOne(numberOfNatGateways, numberOfAvailabilityZones) ==
    numberOfNatGateways > numberOfAvailabilityZones + 1

\* if (numberOfNatGateways > numberOfAvailabilityZones) throw
tooManyNatGateways(numberOfNatGateways, numberOfAvailabilityZones) ==
    numberOfNatGateways > numberOfAvailabilityZones

\* new VpcTopology(this, name, cidrBlock, numberOfAvailabilityZones, opts)
\*     .createSubnets(args.subnets || [public, private])
createSubnets(v, cidrBlock, numberOfAvailabilityZones, specs) ==
    LET plan == partition(cidrBlock, numberOfAvailabilityZones, specs)
    IN  IF ~plan.ok THEN Throw(v, "cidrTooSmall")
        ELSE [v EXCEPT
                !.publicSubnets = SelectType(plan.subnets, "public"),
                !.privateSubnets = SelectType(plan.subnets, "private"),
                !.isolatedSubnets = SelectType(plan.subnets, "isolated"),
                !.declared = @ \o Repeat("awsinfra:x:ec2:Subnet", Len(plan.subnets))]

IgwRoute ==
    [destinationCidrBlock |-> "0.0.0.0/0", gatewayId |-> Some("igw"), natGatewayId |-> None]

NatRoute(g) ==
    [destinationCidrBlock |-> "0.0.0.0/0", gatewayId |-> None, natGatewayId |-> Some(g)]

\* Mutant: the gateway is created whether or not there are public subnets.
createInternetGateway_always(v) ==
    [v EXCEPT
        !.internetGateway = Some("igw"),
        !.publicSubnets =
            [i \in 1..Len(@) |-> [@[i] EXCEPT !.routes = Append(@, IgwRoute)]],
        !.declared = (@ \o <<"aws:ec2:InternetGateway">>)
                        \o Repeat("aws:ec2:Route", Len(v.publicSubnets))]

createInternetGateway(v) ==
    IF Len(v.publicSubnets) = 0 THEN v
    ELSE [v EXCEPT
            !.internetGateway = Some("igw"),
            !.publicSubnets =
                [i \in 1..Len(@) |-> [@[i] EXCEPT !.routes = Append(@, IgwRoute)]],
            !.declared = (@ \o <<"aws:ec2:InternetGateway">>)
                            \o Repeat("aws:ec2:Route", Len(v.publicSubnets))]

\* Mutant: gateway i goes to the last public subnet of its zone.
RECURSIVE createGateways_lastBand(_, _, _, _)
createGateways_lastBand(v, numberOfAvailabilityZones, numberOfNatGateways, i) ==
    IF i >= numberOfNatGateways THEN v
    ELSE LET availabilityZone == i % numberOfAvailabilityZones
             last == Len(v.publicSubnets) - numberOfAvailabilityZones
         IN  IF availabilityZone + 1 > Len(v.publicSubnets)
             THEN Throw(v, "TypeError")
             ELSE createGateways_lastBand(
                    [v EXCEPT
                       !.natGateways = Append(@,
                           [index |-> i,
                            subnetId |-> v.publicSubnets[last + availabilityZone + 1]]),
                       !.declared = @ \o <<"aws:ec2:Eip", "aws:ec2:NatGateway">>],
                    numberOfAvailabilityZones, numberOfNatGateways, i + 1)

\* First loop of createNatGateways: gateway i (0-based) goes to
\* publicSubnets[i % numberOfAvailabilityZones].
RECURSIVE createGateways(_, _, _, _)
createGateways(v, numberOfAvailabilityZones, numberOfNatGateways, i) ==
    IF i >= numberOfNatGateways THEN v
    ELSE LET availabilityZone == i % numberOfAvailabilityZones
         IN  IF availabilityZone + 1 > Len(v.publicSubnets)
             THEN Throw(v, "TypeError")
             ELSE createGateways(
                    [v EXCEPT
                       !.natGateways = Append(@,
                           [index |-> i,
                            subnetId |-> v.publicSubnets[availabilityZone + 1]]),
                       !.declared = @ \o <<"aws:ec2:Eip", "aws:ec2:NatGateway">>],
                    numberOfAvailabilityZones, numberOfNatGateways, i + 1)

\* j < numberOfNatGateways ? this.natGateways[j] : this.natGateways[roundRobinIndex++]
natGatewayIndex(j, numberOfNatGateways, roundRobinIndex) ==
    IF j < numberOfNatGateways THEN j ELSE roundRobinIndex

nextRoundRobinIndex(j, numberOfNatGateways, roundRobinIndex) ==
    IF j < numberOfNatGateways THEN roundRobinIndex ELSE roundRobinIndex + 1

\* Second loop of createNatGateways, flattened: iteration k (0-based) is the
\* pair (i, j) with i + j = k and j = k % numberOfAvailabilityZones.
RECURSIVE createNatRoutes(_, _, _, _, _)
createNatRoutes(v, numberOfAvailabilityZones, numberOfNatGateways, k, roundRobinIndex) ==
    LET n == Len(v.privateSubnets)
        j == k % numberOfAvailabilityZones
        i == k - j
    IN  IF i >= n THEN v
        ELSE LET g == natGatewayIndex(j, numberOfNatGateways, roundRobinIndex)
             IN  IF k + 1 > n \/ g + 1 > Len(v.natGateways) \/ g < 0
                 THEN Throw(v, "TypeError")
                 ELSE createNatRoutes(
                        [v EXCEPT
                           !.privateSubnets[k + 1].routes = Append(@, NatRoute(g)),
                           !.declared = Append(@, "aws:ec2:Route")],
                        numberOfAvailabilityZones, numberOfNatGateways, k + 1,
                        nextRoundRobinIndex(j, numberOfNatGateways, roundRobinIndex))

\* Mutant: the private subnets are not looked at before creating gateways.
createNatGateways_noPrivateCheck(v, numberOfAvailabilityZones, numberOfNatGateways) ==
    IF numberOfNatGateways = 0 \/ Len(v.publicSubnets) = 0
    THEN v
    ELSE LET w == createGateways(v, numberOfAvailabilityZones, numberOfNatGateways, 0)
         IN  IF w.status = "error" THEN w
             ELSE createNatRoutes(w, numberOfAvailabilityZones, numberOfNatGateways, 0, 0)

createNatGateways(v, numberOfAvailabilityZones, numberOfNatGateways) ==
    IF Len(v.privateSubnets) = 0 \/ numberOfNatGateways = 0 \/ Len(v.publicSubnets) = 0
    THEN v
    ELSE LET w == createGateways(v, numberOfAvailabilityZones, numberOfNatGateways, 0)
         IN  IF w.status = "error" THEN w
             ELSE createNatRoutes(w, numberOfAvailabilityZones, numberOfNatGateways, 0, 0)

\* Mutant: the gateway count is handed to the topology.
topologyZones_swapped(numberOfAvailabilityZones, numberOfNatGateways) ==
    numberOfNatGateways

\* Mutant: the literal default is handed to the topology.
topologyZones_literal(numberOfAvailabilityZones, numberOfNatGateways) ==
    DefaultNumberOfAvailabilityZones

\* The zone count the constructor hands to the topology.
topologyZones(numberOfAvailabilityZones, numberOfNatGateways) ==
    numberOfAvailabilityZones

\* The constructor for VpcArgs, start to end (or to the throw).
VpcConstructor(args) ==
    LET cidrBlock == cidrBlockOf(args)
        numberOfAvailabilityZones == numberOfAvailabilityZonesOf(args)
        numberOfNatGateways == numberOfNatGatewaysOf(args)
    IN  IF tooManyNatGateways(numberOfNatGateways, numberOfAvailabilityZones)
        THEN Throw(NewVpc, "tooManyNatGateways")
        ELSE LET v1 == [NewVpc EXCEPT !.declared = <<"aws:ec2:Vpc">>]
                 v2 == createSubnets(v1, cidrBlock,
                          topologyZones(numberOfAvailabilityZones, numberOfNatGateways),
                          subnetsOf(args))
             IN  IF v2.status = "error" THEN v2
                 ELSE LET v3 == createInternetGateway(v2)
                          v4 == createNatGateways(v3, numberOfAvailabilityZones,
                                                  numberOfNatGateways)
                      IN  IF v4.status = "error" THEN v4
                          ELSE [v4 EXCEPT !.status = "ok"]

\* ------------------------------------------------------------------------
\* Container builds and the build image name (getBuildImageName)
\* ------------------------------------------------------------------------

\* build: string | ContainerBuild.  The string form carries its path in
\* 'context'; args are the key/value pairs in the order they were written.
StringBuild(path) ==
    [form |-> "string", context |-> Some(path), dockerfile |-> None, args |-> None]

ObjectBuild(context, dockerfile, args) ==
    [form |-> "object", context |-> context, dockerfile |-> dockerfile, args |-> args]

Arg(k, v) == [key |-> k, value |-> v]

\* for (const arg of Object.keys(build.args)) buildSig += `;arg[${arg}]=${build.args[arg]}`
RECURSIVE argsSig(_)
argsSig(args) ==
    IF args = <<>> THEN ""
    ELSE ((((";arg[" \o Head(args).key) \o "]=") \o Head(args).value)) \o argsSig(Tail(args))

\* build.context || "."
contextSig(build) ==
    IF IsSome(build.context) /\ Get(build.context) # "" THEN Get(build.context) ELSE "."

\* if (build.dockerfile) buildSig += `;dockerfile=${build.dockerfile}`
dockerfileSig(build) ==
    IF IsSome(build.dockerfile) /\ Get(build.dockerfile) # ""
    THEN ";dockerfile=" \o Get(build.dockerfile)
    ELSE ""

\* Mutant: the Dockerfile override is left out of the signature.
buildSig_noDockerfile(build) ==
    IF build.form = "string" THEN Get(build.context)
    ELSE contextSig(build)
            \o (IF IsSome(build.args) THEN argsSig(Get(build.args)) ELSE "")

buildSig(build) ==
    IF build.form = "string" THEN Get(build.context)
    ELSE (contextSig(build) \o dockerfileSig(build))
            \o (IF IsSome(build.args) THEN argsSig(Get(build.args)) ELSE "")

\* sha1hash: the first 8 hex digits of the SHA1 of s.  The digest is kept
\* symbolic; collisions of the truncated digest are not modelled.
sha1hash(s) == <<"sha1", s>>

\* Mutant: the image name is made of the component's name alone.
getBuildImageName_nameOnly(name, build) == [hash |-> sha1hash(""), name |-> name]

\* `${sha1hash(buildSig)}-container-${name}`: the hash has a fixed width, so
\* the image name determines both parts.
getBuildImageName(name, build) == [hash |-> sha1hash(buildSig(build)), name |-> name]

\* ------------------------------------------------------------------------
\* computeImage and the build image cache
\* ------------------------------------------------------------------------

\* The part of the evaluation run's state that the container helpers use:
\* the two process-wide maps, the deferred callbacks not yet run, the calls of
\* docker.buildAndPushImage made so far and the images handed to requests.
NewRun ==
    [ repositories |-> {}, buildImageCache |-> <<>>, pending |-> <<>>,
      builds |-> <<>>, images |-> <<>>, declared |-> <<>>,
      status |-> "new", error |-> "none", exposedPort |-> None, endpoints |-> <<>> ]

\* getOrCreateRepository(parent, imageName)
getOrCreateRepository(r, imageName) ==
    IF imageName \in r.repositories THEN r
    ELSE [r EXCEPT
            !.repositories = @ \cup {imageName},
            !.declared = @ \o <<"aws:ecr:Repository", "aws:ecr:LifecyclePolicy">>]

\* computeImageFromBuild: name the image, get the repository and defer the
\* worker until the repository's outputs are known.
computeImageFromBuild(r, name, build) ==
    LET imageName == getBuildImageName(name, build)
        r1 == getOrCreateRepository(r, imageName)
    IN  [r1 EXCEPT !.pending = Append(@, [name |-> name, build |-> build,
                                           imageName |-> imageName])]

\* computeImage: build, else image, else function, else throw.
computeImage(r, name, container) ==
    IF IsSome(container.build) THEN computeImageFromBuild(r, name, Get(container.build))
    ELSE IF IsSome(container.image) THEN r
    ELSE IF container.function THEN r
    ELSE [r EXCEPT !.status = "error", !.error = "Invalid container definition"]

CacheHas(cache, imageName) == \E i \in 1..Len(cache) : cache[i].key = imageName

CacheGet(cache, imageName) ==
    cache[CHOOSE i \in 1..Len(cache) : cache[i].key = imageName].value

\* Mutant: the cache is never consulted.
cacheHit_never(cache, imageName) == FALSE

\* let uniqueImageName = buildImageCache.get(imageName); if (uniqueImageName) ...
cacheHit(cache, imageName) == CacheHas(cache, imageName)

\* Mutant: every request builds again and its result replaces the entry.
computeImageFromBuildWorker_rebuild(r, req, ok) ==
    LET id == Len(r.builds) + 1
        others == SelectSeq(r.buildImageCache, LAMBDA e : e.key # req.imageName)
    IN  [r EXCEPT
           !.builds = Append(@, [imageName |-> req.imageName,
                                 build |-> req.build, ok |-> ok]),
           !.buildImageCache = Append(others, [key |-> req.imageName, value |-> id]),
           !.images = Append(@,
               [name |-> req.name, build |-> req.build,
                imageName |-> req.imageName, image |-> id])]

\* computeImageFromBuildWorker for the deferred request 'req'; 'ok' is the
\* outcome of docker.buildAndPushImage should it be called.  The image a
\* request receives is the Output the build call returned, identified by the
\* position of that call in 'builds'; 'images' lists what the callbacks
\* returned, in the order they ran.
computeImageFromBuildWorker(r, req, ok) ==
    IF cacheHit(r.buildImageCache, req.imageName)
    THEN [r EXCEPT !.images = Append(@,
             [name |-> req.name, build |-> req.build, imageName |-> req.imageName,
              image |-> CacheGet(r.buildImageCache, req.imageName)])]
    ELSE LET id == Len(r.builds) + 1
         IN  [r EXCEPT
                !.builds = Append(@, [imageName |-> req.imageName,
                                      build |-> req.build, ok |-> ok]),
                !.buildImageCache = Append(@, [key |-> req.imageName, value |-> id]),
                !.images = Append(@,
                    [name |-> req.name, build |-> req.build,
                     imageName |-> req.imageName, image |-> id])]

\* ------------------------------------------------------------------------
\* ClusterTaskDefinition constructor
\* ------------------------------------------------------------------------
ContainerDefinition(image, build, function, loadBalancerPort) ==
    [image |-> image, build |-> build, function |-> function,
     loadBalancerPort |-> loadBalancerPort]

\* Mutant: a later container with a loadBalancerPort replaces the earlier one.
RECURSIVE getExposedPort_lastWins(_, _, _)
getExposedPort_lastWins(r, containers, i) ==
    IF i > Len(containers) THEN r
    ELSE IF ~containers[i].loadBalancerPort
         THEN getExposedPort_lastWins(r, containers, i + 1)
         ELSE getExposedPort_lastWins(
                [r EXCEPT !.exposedPort = Some(i),
                          !.declared = Append(@, "awsinfra:x:ClusterLoadBalancer")],
                containers, i + 1)

\* getExposedPort: one load balancer for the container that names a
\* loadBalancerPort; a second such container is an error.
RECURSIVE getExposedPort(_, _, _)
getExposedPort(r, containers, i) ==
    IF i > Len(containers) THEN r
    ELSE IF ~containers[i].loadBalancerPort THEN getExposedPort(r, containers, i + 1)
    ELSE IF IsSome(r.exposedPort)
         THEN [r EXCEPT !.status = "error",
                        !.error = "Only a single container can specify a [loadBalancerPort]."]
         ELSE getExposedPort(
                [r EXCEPT !.exposedPort = Some(i),
                          !.declared = Append(@, "awsinfra:x:ClusterLoadBalancer")],
                containers, i + 1)

\* computeContainerDefinitions: computeContainerDefinition for each container
\* in declaration order; its synchronous part is computeImage.
RECURSIVE computeContainerDefinitions(_, _, _, _)
computeContainerDefinitions(r, name, containers, i) ==
    IF i > Len(containers) THEN r
    ELSE LET r1 == computeImage(r, name, containers[i])
         IN  IF r1.status = "error" THEN r1
             ELSE computeContainerDefinitions(r1, name, containers, i + 1)

createTaskRole(r) ==
    [r EXCEPT !.declared = @ \o <<"aws:iam:Role", "aws:iam:RolePolicyAttachment",
                                  "aws:iam:RolePolicyAttachment">>]

createExecutionRole(r) ==
    [r EXCEPT !.declared = @ \o <<"aws:iam:Role", "aws:iam:RolePolicyAttachment">>]

createLogGroup(r) == [r EXCEPT !.declared = Append(@, "aws:cloudwatch:LogGroup")]

\* endpoints: empty without an exposed port, else one entry for the exposed
\* container with the one port of its load balancer.
endpointsOf(exposedPort) ==
    IF exposedPort = None THEN <<>>
    ELSE << [ containerName |-> Get(exposedPort),
              ports |-> << [port |-> 80, hostname |-> "lb", loadBalancer |-> "lb"] >> ] >>

\* The constructor, start to end (or to the throw).  'declared', 'status',
\* 'error' and 'exposedPort' describe the construction under way.
ClusterTaskDefinitionConstructor(r, name, args) ==
    LET r0 == [r EXCEPT !.declared = <<>>, !.status = "new", !.error = "none",
                        !.exposedPort = None, !.endpoints = <<>>]
        r1 == IF args.logGroup THEN r0 ELSE createLogGroup(r0)
        r2 == IF args.taskRole THEN r1 ELSE createTaskRole(r1)
        r3 == IF args.executionRole THEN r2 ELSE createExecutionRole(r2)
        r4 == getExposedPort(r3, args.containers, 1)
    IN  IF r4.status = "error" THEN r4
        ELSE LET r5 == computeContainerDefinitions(r4, name, args.containers, 1)
             IN  IF r5.status = "error" THEN r5
                 ELSE [r5 EXCEPT !.declared = Append(@, "aws:ecs:TaskDefinition"),
                                 !.endpoints = endpointsOf(r5.exposedPort),
                                 !.status = "ok"]

\* Inputs of the task definitions.
Builds == { StringBuild("./app"),
            ObjectBuild(Some("./app"), Some("df"), None) }

\* The names under which the program asks for container definitions.
ComponentNames == {"svc-a", "svc-b"}

ContainerDefinitions ==
    { ContainerDefinition(Some("nginx"), None, FALSE, FALSE),
      ContainerDefinition(Some("nginx"), None, FALSE, TRUE),
      ContainerDefinition(Some("nginx"), None, TRUE, FALSE),
      ContainerDefinition(None, None, TRUE, FALSE),
      ContainerDefinition(None, None, FALSE, FALSE) }
    \cup { ContainerDefinition(None, Some(b), FALSE, FALSE) : b \in Builds }

ContainerLists == UNION { [1..n -> ContainerDefinitions] : n \in 0..MaxContainers }


\* ------------------------------------------------------------------------
\* createRunFunction / runTask
\* ------------------------------------------------------------------------
EnvVar(k, v) == [name |-> k, value |-> v]

\* addEnvironmentVariables(e): one entry per key whose value is not empty.
RECURSIVE addEnvironmentVariables(_, _)
addEnvironmentVariables(env, e) ==
    IF e = <<>> THEN env
    ELSE addEnvironmentVariables(
            IF Head(e).value # "" THEN Append(env, Head(e)) ELSE env, Tail(e))

OptEnvironment(e) == IF IsSome(e) THEN Get(e) ELSE <<>>

\* innerContainers[containerName]
environmentOf(innerContainers, containerName) ==
    IF \E i \in 1..Len(innerContainers) : innerContainers[i].name = containerName
    THEN innerContainers[CHOOSE i \in 1..Len(innerContainers) :
                            innerContainers[i].name = containerName].environment
    ELSE None

\* options.containerName || Object.keys(innerContainers)[0]
selectContainerName(options, innerContainers) ==
    IF IsSome(options.containerName) /\ Get(options.containerName) # ""
    THEN options.containerName
    ELSE IF Len(innerContainers) > 0 THEN Some(innerContainers[1].name) ELSE None

placementConstraints(isFargate, os) ==
    IF isFargate THEN None
    ELSE Some("attribute:ecs.os-type == " \o (IF IsSome(os) THEN Get(os) ELSE "linux"))

\* Mutant: an empty failure list counts as a failure.
hasFailures_anyList(res) == IsSome(res.failures)

\* res.failures && res.failures.length > 0
hasFailures(res) == IsSome(res.failures) /\ Len(Get(res.failures)) > 0

NotRun == [status |-> "new", error |-> "none", failures |-> <<>>, request |-> None]

\* runTask(options), start to end; 'res' is what ecs.runTask(...).promise()
\* settles to: a rejection, or a response with an optional failure list.
runTask(in) ==
    LET containerName == selectContainerName(in.options, in.containerToEnvironment)
    IN  IF ~IsSome(containerName) \/ Get(containerName) = ""
        THEN [NotRun EXCEPT !.status = "thrown",
                            !.error = "No valid container name found to run task for."]
        ELSE LET environment ==
                     environmentOf(in.containerToEnvironment, Get(containerName))
                 env == addEnvironmentVariables(
                            addEnvironmentVariables(<<>>, OptEnvironment(environment)),
                            OptEnvironment(in.options.environment))
                 request ==
                     [ placementConstraints |->
                           placementConstraints(in.isFargate, in.options.os),
                       launchType |-> IF in.isFargate THEN "FARGATE" ELSE "EC2",
                       assignPublicIp |->
                           IF in.isFargate /\ ~in.usePrivateSubnets
                           THEN "ENABLED" ELSE "DISABLED",
                       containerOverrides |->
                           << [name |-> "container", environment |-> env] >> ]
                 sent == [NotRun EXCEPT !.request = Some(request)]
             IN  IF in.res.rejected
                 THEN [sent EXCEPT !.status = "thrown", !.error = "ecs.runTask rejected"]
                 ELSE IF hasFailures(in.res)
                 THEN [sent EXCEPT !.status = "thrown",
                                   !.error = "Failed to start task:",
                                   !.failures = Get(in.res.failures)]
                 ELSE [sent EXCEPT !.status = "returned"]

\* Inputs of runTask.
Environments ==
    { <<>>, <<EnvVar("A", "1")>>, <<EnvVar("A", "1"), EnvVar("B", "")>> }

OptionEnvironments == { <<EnvVar("A", "2")>>, <<EnvVar("C", "3")>> }

ContainerEnvironments ==
    { <<>> }
    \cup { << [name |-> "c1", environment |-> e] >> : e \in Opt(Environments) }
    \cup { << [name |-> "c1", environment |-> e],
              [name |-> "c2", environment |-> Some(<<EnvVar("D", "4")>>)] >> :
              e \in Opt(Environments) }

TaskRunOptions ==
    [ containerName : Opt({"c2", "nope"}),
      os : Opt({"windows"}),
      environment : Opt(OptionEnvironments) ]

RunTaskResponses ==
    { [rejected |-> TRUE, failures |-> None] }
    \cup [ rejected : {FALSE},
           failures : Opt({ <<>>, <<"MISSING">>, <<"MISSING", "RESOURCE:MEMORY">> }) ]

RunTaskInputs ==
    [ isFargate : BOOLEAN, usePrivateSubnets : BOOLEAN,
      containerToEnvironment : ContainerEnvironments,
      options : TaskRunOptions, res : RunTaskResponses ]

NoRunTaskInput ==
    [ isFargate |-> FALSE, usePrivateSubnets |-> FALSE, containerToEnvironment |-> <<>>,
      options |-> [containerName |-> None, os |-> None, environment |-> None],
      res |-> [rejected |-> FALSE, failures |-> None] ]

\* ------------------------------------------------------------------------
\* Assembling a container definition (computeContainerDefinition)
\* ------------------------------------------------------------------------
KeyValuePair(k, v) == [name |-> k, value |-> v]

PortMapping(containerPort, hostPort) ==
    [containerPort |-> containerPort, hostPort |-> hostPort]

StringImage(image) == [kind |-> "string", image |-> image, environment |-> None]

\* A ContainerImageProvider: what its image() and environment() return.
ImageProvider(image, environment) ==
    [kind |-> "provider", image |-> image, environment |-> environment]

isContainerImageProvider(image) == image.kind = "provider"

\* Mutant: the provider's variables come first.
combineArrays_reversed(e1, e2) ==
    (IF IsSome(e2) THEN Get(e2) ELSE <<>>) \o (IF IsSome(e1) THEN Get(e1) ELSE <<>>)

\* e1 = e1 || []; e2 = e2 || []; return [...e1, ...e2]
combineArrays(e1, e2) ==
    (IF IsSome(e1) THEN Get(e1) ELSE <<>>) \o (IF IsSome(e2) THEN Get(e2) ELSE <<>>)

\* Mutant: a host port of 0 counts as unspecified.
hostPortUnspecified_falsy(mapping) ==
    mapping.hostPort = None \/ mapping.hostPort = Some(0)

\* copy.hostPort === undefined
hostPortUnspecified(mapping) == mapping.hostPort = None

\* initializePortMapping(portMapping): the object it is given, with hostPort
\* set when it had none.
initializePortMapping(portMapping) ==
    IF hostPortUnspecified(portMapping)
    THEN [portMapping EXCEPT !.hostPort = Some(portMapping.containerPort)]
    ELSE portMapping

\* convertMappings(mappings): a copy of each mapping, with hostPort set when
\* it had none.
convertMappings(mappings) ==
    [ i \in 1..Len(mappings) |->
        LET copy == mappings[i]
        IN  IF hostPortUnspecified(copy)
            THEN [copy EXCEPT !.hostPort = Some(copy.containerPort)]
            ELSE copy ]

\* getPortMappings(container): undefined when the container has none.
getPortMappings(container) ==
    IF ~IsSome(container.portMappings) THEN None
    ELSE Some(convertMappings(Get(container.portMappings)))

AwsRegion == "us-west-2"

\* Mutant: the log group's id is used as the stream prefix.
logConfigurationOf_groupPrefix(container, logGroupId, containerName) ==
    IF IsSome(container.logConfiguration) THEN Get(container.logConfiguration)
    ELSE [ logDriver |-> "awslogs",
           group |-> logGroupId, region |-> AwsRegion, streamPrefix |-> logGroupId ]

\* container.logConfiguration || { logDriver: "awslogs", options: {...} }
logConfigurationOf(container, logGroupId, containerName) ==
    IF IsSome(container.logConfiguration) THEN Get(container.logConfiguration)
    ELSE [ logDriver |-> "awslogs",
           group |-> logGroupId, region |-> AwsRegion, streamPrefix |-> containerName ]

\* computeContainerDefinition of the Container interface: the container's own
\* properties, then image, environment, portMappings, name and
\* logConfiguration over them.
computeContainerDefinition(containerName, container, logGroupId) ==
    LET image == container.image.image
        environment ==
            IF isContainerImageProvider(container.image)
            THEN Some(combineArrays(container.environment, container.image.environment))
            ELSE container.environment
        portMappings == getPortMappings(container)
    IN  [ container EXCEPT
            !.image = image,
            !.environment = environment,
            !.portMappings = portMappings,
            !.name = Some(containerName),
            !.logConfiguration = logConfigurationOf(container, logGroupId, containerName) ]

\* Object.assign({}, container.environment || {}), as the list of its entries
\* in key order.
preEnvOf(container) ==
    IF IsSome(container.environment) THEN Get(container.environment) ELSE <<>>

\* createImageOptions(image, environment)
createImageOptions(image, environment) == [image |-> image, environment |-> environment]

\* The callback of computeContainerDefinition for a ContainerDefinition whose
\* image options are known: the container's own properties, then name, image,
\* portMappings, environment and logConfiguration over them.
computeContainerDefinitionCallback(containerName, container, imageOptions, logGroupId) ==
    LET keyValuePairs == imageOptions.environment
        portMappings ==
            IF IsSome(container.portMappings) THEN Get(container.portMappings) ELSE <<>>
    IN  [ container EXCEPT
            !.name = Some(containerName),
            !.image = imageOptions.image,
            !.portMappings =
                [i \in 1..Len(portMappings) |-> initializePortMapping(portMappings[i])],
            !.environment = keyValuePairs,
            !.logConfiguration = logConfigurationOf(container, logGroupId, containerName) ]

\* Inputs of computeContainerDefinition.
MaxMappings == 2

PortMappings == { PortMapping(c, h) : c \in {80, 443}, h \in Opt({0, 8080}) }

PortMappingLists == UNION { [1..n -> PortMappings] : n \in 0..MaxMappings }

KeyValueLists ==
    { <<>>, <<KeyValuePair("A", "1")>>, <<KeyValuePair("A", "1"), KeyValuePair("B", "2")>> }

ProviderEnvironments ==
    { <<KeyValuePair("A", "9")>>, <<KeyValuePair("C", "3"), KeyValuePair("A", "9")>> }

Images ==
    { StringImage("nginx") }
    \cup { ImageProvider("built", e) : e \in Opt(ProviderEnvironments) }

UserLogConfiguration ==
    [logDriver |-> "syslog", group |-> "", region |-> "", streamPrefix |-> ""]

Containers ==
    [ name : Opt({"mine"}),
      image : Images,
      environment : Opt(KeyValueLists),
      portMappings : Opt(PortMappingLists),
      logConfiguration : Opt({UserLogConfiguration}) ]

ContainerRequests ==
    [ containerName : {"c1", "c2"}, logGroupId : {"lg-1"}, container : Containers ]

NoContainerRequest ==
    [ containerName |-> "", logGroupId |-> "",
      container |-> [ name |-> None, image |-> StringImage(""), environment |-> None,
                      portMappings |-> None, logConfiguration |-> None ] ]

NotAssembled == [current |-> None, legacy |-> None]

\* ------------------------------------------------------------------------
\* Inputs of getBuildImageName
\* ------------------------------------------------------------------------
BuildArgLists ==
    { <<>>, <<Arg("a", "1")>>, <<Arg("a", "1"), Arg("b", "2")>>,
      <<Arg("b", "2"), Arg("a", "1")>> }

ContainerBuilds ==
    { StringBuild("./app"), StringBuild("./app;dockerfile=df") }
    \cup { ObjectBuild(c, d, a) :
             c \in Opt({".", "./app", "./app;dockerfile=df"}),
             d \in Opt({"df"}),
             a \in Opt(BuildArgLists) }

BuildRequests == [name : ComponentNames, build : ContainerBuilds]

NoBuildRequest == [name |-> "", build |-> StringBuild("")]

NoImageNames == <<>>

\* ------------------------------------------------------------------------
\* Vpc over an existing VPC, Vpc.getDefault (experimental/ec2/vpc.ts)
\* ------------------------------------------------------------------------
MaxIds == 2
MaxCalls == 3

\* pulumi.output(v)
Output(v) == [output |-> v]

createOutputs(inputs) ==
    IF ~IsSome(inputs) THEN <<>>
    ELSE [i \in 1..Len(Get(inputs)) |-> Output(Get(inputs)[i])]

isExistingVpcArgs(args) == args.vpcId # ""

\* The fields of a Vpc before its constructor has run; declared lists the
\* resources the constructor creates under the component.
NewExistingVpc ==
    [ status |-> "new", name |-> "", opts |-> None, declared |-> <<>>,
      vpcId |-> None,
      publicSubnetIds |-> <<>>, privateSubnetIds |-> <<>>,
      isolatedSubnetIds |-> <<>>, securityGroupIds |-> <<>>,
      publicSubnets |-> <<>>, privateSubnets |-> <<>>, isolatedSubnets |-> <<>>,
      internetGateway |-> None, natGateways |-> <<>> ]

\* new Vpc(name, args, opts) where isExistingVpcArgs(args)
ExistingVpcConstructor(name, args, opts) ==
    [ NewExistingVpc EXCEPT
        !.status = "ok", !.name = name, !.opts = opts,
        !.vpcId = Some(Output(args.vpcId)),
        !.publicSubnetIds = createOutputs(args.publicSubnetIds),
        !.privateSubnetIds = createOutputs(args.privateSubnetIds),
        !.isolatedSubnetIds = createOutputs(args.isolatedSubnetIds) ]

\* Vpc.getDefault(opts): current is the module variable defaultVpc, account
\* what aws.ec2.getVpc, getSubnetIds and getSecurityGroup answer.  Returns the
\* result of the call and the new value of defaultVpc.
getDefault(current, account, opts) ==
    IF ~IsSome(current)
    THEN [ result |-> current, defaultVpc |-> current, registered |-> <<>> ]
    ELSE LET v == ExistingVpcConstructor("default-vpc",
                     [ vpcId |-> account.vpcId,
                       publicSubnetIds |->
                           Some(<<account.subnetIds[1], account.subnetIds[2]>>),
                       privateSubnetIds |-> None,
                       isolatedSubnetIds |-> None,
                       securityGroupIds |-> Some(<<account.securityGroupId>>) ],
                     opts)
         IN [ result |-> Some(v), defaultVpc |-> Some(v),
              registered |-> <<"default-vpc">> ]

VpcIdentifiers == {"vpc-1", "vpc-2"}
Ids == {"id-1", "id-2"}
IdLists == UNION { [1..n -> Ids] : n \in 0..MaxIds }

ExistingVpcArgs ==
    [ vpcId : VpcIdentifiers, publicSubnetIds : Opt(IdLists),
      privateSubnetIds : Opt(IdLists), isolatedSubnetIds : Opt(IdLists),
      securityGroupIds : Opt(IdLists) ]

ResourceOptions == Opt({"parent", "provider"})

ExistingVpcRequests == [ name : {"vpc"}, args : ExistingVpcArgs, opts : {None} ]

NoExistingVpcRequest ==
    [ name |-> "",
      args |-> [ vpcId |-> "", publicSubnetIds |-> None, privateSubnetIds |-> None,
                 isolatedSubnetIds |-> None, securityGroupIds |-> None ],
      opts |-> None ]

\* The default VPC of an account has at least two subnets.
Accounts ==
    [ vpcId : VpcIdentifiers,
      subnetIds : { <<"id-1", "id-2">>, <<"id-2", "id-1">>, <<"id-1", "id-2", "id-3">> },
      securityGroupId : {"sg-1", "sg-2"} ]

NoAccount == [ vpcId |-> "", subnetIds |-> <<>>, securityGroupId |-> "" ]

\* ------------------------------------------------------------------------
\* withAlias, withAliases (awsx/utils.ts)
\* ------------------------------------------------------------------------
MaxAliases == 2

\* The loops fill allAliases; the object returned is { ...opts, aliases }.
withAliases(opts, aliases) ==
    LET allAliases ==
            (IF IsSome(opts.aliases) THEN Get(opts.aliases) ELSE <<>>) \o aliases
    IN [opts EXCEPT !.aliases = Some(aliases)]

withAlias(opts, alias) == withAliases(opts, <<alias>>)

Aliases == {"urn-a", "urn-b"}
AliasLists == UNION { [1..n -> Aliases] : n \in 0..MaxAliases }

\* Resource options: the aliases and one more field.
AliasedOptions == [ parent : Opt({"parent"}), aliases : Opt(AliasLists) ]

AliasRequests == [ opts : AliasedOptions, aliases : AliasLists ]

NoAliasRequest == [ opts |-> [parent |-> None, aliases |-> None], aliases |-> <<>> ]

\* opts is the caller's object after the call.
NoAliasResult ==
    [ status |-> "new", via |-> "", opts |-> [parent |-> None, aliases |-> None],
      result |-> [parent |-> None, aliases |-> None] ]

\* ------------------------------------------------------------------------
\* getEndpoint (experimental/clusterTaskDefinition.ts)
\* ------------------------------------------------------------------------
MaxPorts == 2

\* +undefined: a number that is the key of no port.
NaN == -1

\* An entry of mod.Endpoints[containerName]
Endpoint(containerName, port) ==
    [ port |-> port, hostname |-> "lb-" \o containerName, loadBalancer |-> "lb" ]

\* Object.keys(endpoints)
containerNamesOf(endpoints) ==
    [i \in 1..Len(endpoints) |-> endpoints[i].containerName]

\* endpoints[containerName] || {}
containerPortsOf(endpoints, containerName) ==
    IF \E i \in 1..Len(endpoints) : endpoints[i].containerName = containerName
    THEN endpoints[CHOOSE i \in 1..Len(endpoints) :
                       endpoints[i].containerName = containerName].ports
    ELSE <<>>

\* containerPorts[containerPort]
endpointAt(containerPorts, containerPort) ==
    IF \E i \in 1..Len(containerPorts) : containerPorts[i].port = containerPort
    THEN Some(containerPorts[CHOOSE i \in 1..Len(containerPorts) :
                                 containerPorts[i].port = containerPort])
    ELSE None

EndpointError(message, containerName, containerPort) ==
    [ status |-> "error", message |-> message, containerName |-> containerName,
      containerPort |-> containerPort, endpoint |-> None ]

\* containerName and containerPort are optional; a name of "" and a port of 0
\* are falsy and count as omitted.  The port defaults to
\* +Object.keys(containerPorts)[0], a number even when there is no key.
getEndpointHelper(endpoints, containerName, containerPort) ==
    LET names == containerNamesOf(endpoints)
        name == IF IsSome(containerName) /\ Get(containerName) # ""
                THEN containerName
                ELSE IF names = <<>> THEN None ELSE Some(names[1])
    IN IF ~IsSome(name)
       THEN EndpointError("No containers available in this service", None, None)
       ELSE
         LET containerPorts == containerPortsOf(endpoints, Get(name))
             port == IF IsSome(containerPort) /\ Get(containerPort) # 0
                     THEN containerPort
                     ELSE Some(IF containerPorts = <<>> THEN NaN
                               ELSE containerPorts[1].port)
         IN IF ~IsSome(port)
            THEN EndpointError("No ports available in service container",
                               name, None)
            ELSE
              LET endpoint == endpointAt(containerPorts, Get(port))
              IN IF ~IsSome(endpoint)
                 THEN EndpointError("No exposed port for", name, port)
                 ELSE [ status |-> "ok", message |-> "", containerName |-> name,
                        containerPort |-> port, endpoint |-> endpoint ]

EndpointNames == {"c1", "c2"}
PortNumbers == {80, 443, 8080}

\* The ports of a container, in the order of Object.keys: ascending.
PortLists ==
    { ports \in UNION { [1..n -> PortNumbers] : n \in 0..MaxPorts } :
        \A i, j \in 1..Len(ports) : i < j => ports[i] < ports[j] }

\* mod.Endpoints: containers in insertion order, each with its ports.
EndpointMaps ==
    { [i \in 1..Len(names) |->
          [ containerName |-> names[i],
            ports |-> [p \in 1..Len(ports[i]) |-> Endpoint(names[i], ports[i][p])] ]] :
        <<names, ports>> \in
            { np \in UNION { [1..n -> EndpointNames] \X [1..n -> PortLists] :
                               n \in 0..Cardinality(EndpointNames) } :
                \A i, j \in 1..Len(np[1]) : i # j => np[1][i] # np[1][j] } }

EndpointRequests ==
    [ endpoints : EndpointMaps, containerName : Opt(EndpointNames),
      containerPort : Opt(PortNumbers \cup {0}) ]

NoEndpointRequest ==
    [ endpoints |-> <<>>, containerName |-> None, containerPort |-> None ]

NoEndpointResult ==
    [ status |-> "new", message |-> "", containerName |-> None,
      containerPort |-> None, endpoint |-> None ]

\* ------------------------------------------------------------------------
\* getRequestLambdaAuthorizerDefinition (apigateway lambda authorizer)
\* ------------------------------------------------------------------------
MaxParameters == 2

\* An entry of RequestAuthorizerArgs.parameters; the entries of the object are
\* kept in the order its keys are enumerated in.
Parameter(key, location) == [key |-> key, location |-> location]

\* The loop of getLocation from a given parameter on; location is None until
\* the first parameter has been seen.
RECURSIVE getLocationFrom(_, _)
getLocationFrom(location, parameters) ==
    IF parameters = <<>>
    THEN location
    ELSE LET currLocation == parameters[1].location
         IN IF ~IsSome(location)
            THEN getLocationFrom(Some(currLocation), Tail(parameters))
            ELSE IF Get(location) = currLocation
            THEN getLocationFrom(location, Tail(parameters))
            ELSE Some("header")

\* None stands for the throw "Could not determine parameter location".
getLocation(parameters) == getLocationFrom(None, parameters)

parameterToIdentitySource_headerOnly(parameterKey, location) ==
    "method.request.header." \o parameterKey

parameterToIdentitySource(parameterKey, location) ==
    IF location = "header"
    THEN "method.request.header." \o parameterKey
    ELSE "method.request.querystring." \o parameterKey

parametersToIdentitySources(parameters) ==
    [i \in 1..Len(parameters) |->
        parameterToIdentitySource(parameters[i].key, parameters[i].location)]

NoAuthorizerDefinition ==
    [ status |-> "new", error |-> "none", authorizerName |-> None,
      parameterName |-> "", parameterLocation |-> "", authType |-> "", type |-> "",
      handler |-> "", identitySource |-> <<>>, authorizerResultTtlInSeconds |-> None ]

AuthorizerError(error) ==
    [NoAuthorizerDefinition EXCEPT !.status = "error", !.error = error]

getRequestLambdaAuthorizerDefinition(args) ==
    LET parameterLen == Len(args.parameters)
        definition(parameterName, location) ==
            [ status |-> "ok", error |-> "none",
              authorizerName |-> args.authorizerName,
              parameterName |-> parameterName,
              parameterLocation |-> location,
              authType |-> "custom", type |-> "request",
              handler |-> args.handler,
              identitySource |-> parametersToIdentitySources(args.parameters),
              authorizerResultTtlInSeconds |-> args.authorizerResultTtlInSeconds ]
    IN IF parameterLen < 1
       THEN AuthorizerError("Must specify at least one parameter")
       ELSE IF parameterLen = 1
       THEN IF ~IsSome(getLocation(args.parameters))
            THEN AuthorizerError("Could not determine parameter location")
            ELSE definition(args.parameters[1].key, Get(getLocation(args.parameters)))
       ELSE definition("Unused", "header")

ParameterKeys == {"Authorization", "token", "auth"}
ParameterLocations == {"header", "query"}

\* Parameter objects: no key twice.
ParameterLists ==
    { [i \in 1..Len(kl[1]) |-> Parameter(kl[1][i], kl[2][i])] :
        kl \in { c \in UNION { [1..n -> ParameterKeys] \X [1..n -> ParameterLocations] :
                                n \in 0..MaxParameters } :
                   \A i, j \in 1..Len(c[1]) : i # j => c[1][i] # c[1][j] } }

RequestAuthorizerArgs ==
    [ authorizerName : Opt({"authorizer"}), parameters : ParameterLists,
      handler : {"lambda"}, authorizerResultTtlInSeconds : Opt({0, 300}) ]

NoAuthorizerArgs ==
    [ authorizerName |-> None, parameters |-> <<>>, handler |-> "",
      authorizerResultTtlInSeconds |-> None ]

\* ------------------------------------------------------------------------
\* promiseResult (awsx/utils.ts)
\* ------------------------------------------------------------------------
MaxTurns == 5

\* A promise: pending, or settled with a value or a rejection reason.
PendingPromise == [state |-> "pending", value |-> None]

Fulfilled(val) == [state |-> "fulfilled", value |-> Some(val)]

Rejected(err) == [state |-> "rejected", value |-> Some(err)]

PromiseValues == {"v1", "v2", "v3"}
RejectionReasons == {"e1", "e2", "e3"}

\* A call of promiseResult: pc is where the call stands, state, result and
\* error are its locals, reaction tells whether the callbacks given to
\* promise.then are still to run, left counts how often state has left
\* State.running, turns the turns of the event loop made by loopWhile.
NotCalled ==
    [ pc |-> "new", state |-> "running", result |-> None, error |-> None,
      reaction |-> "none", left |-> 0, turns |-> 0, outcome |-> None ]

\* let result; let error = undefined; let state = State.running;
\* promise.then(...): the callbacks are registered, none has run.
thenRegistered(call) ==
    [ call EXCEPT !.pc = "loopWhile", !.state = "running", !.result = None,
                  !.error = None, !.reaction = "registered" ]

\* val => { result = val; state = State.finishedSuccessfully; }
onFulfilled(call, val) ==
    [ call EXCEPT !.result = Some(val), !.state = "finishedSuccessfully",
                  !.reaction = "done",
                  !.left = IF call.state = "running" THEN @ + 1 ELSE @ ]

onRejected_asFulfilled(call, err) == onFulfilled(call, err)

\* err => { error = err; state = State.finishedWithError; }
onRejected(call, err) ==
    [ call EXCEPT !.error = Some(err), !.state = "finishedWithError",
                  !.reaction = "done",
                  !.left = IF call.state = "running" THEN @ + 1 ELSE @ ]

\* The condition of deasync.loopWhile
loopCondition(call) == call.state = "running"

\* if (state === State.finishedWithError) throw error; return result!;
afterLoop(call) ==
    IF call.state = "finishedWithError"
    THEN [call EXCEPT !.pc = "thrown", !.outcome = call.error]
    ELSE [call EXCEPT !.pc = "returned", !.outcome = call.result]

\* ------------------------------------------------------------------------
\* State
\* ------------------------------------------------------------------------
VARIABLES
    vpcArgs,     \* the VpcArgs the program passes to new Vpc(...)
    vpc,         \* the Vpc object
    taskArgs,    \* the name and args the program passes to new ClusterTaskDefinition(...)
    run,         \* container state of the evaluation run (see NewRun)
    requests,    \* the number of calls of computeContainerDefinition so far
    runTaskIn,   \* the call of run(options) and what ecs.runTask answers
    runTaskOut,  \* the outcome of that call
    buildPair,   \* two (name, build) requests
    imageNames,  \* <<>> or the image names of the two requests
    containerIn, \* a call of computeContainerDefinition
    assembled,   \* the container definitions computed for it
    existingIn, \* a call of new Vpc(name, args, opts) with ExistingVpcArgs
    existingVpc, \* the Vpc object it constructs
    awsAccount, \* what the account answers to the default-VPC lookups
    defaultVpc, \* the module variable defaultVpc of vpc.ts
    getDefaultCalls, \* the calls of Vpc.getDefault so far, with their results
    aliasIn, \* a call of withAliases(opts, aliases)
    aliasOut, \* what it returned, and opts after the call
    endpointIn, \* a call of getEndpoint(containerName, containerPort) and the endpoints
    endpointOut, \* the outcome of that call
    authorizerArgs, \* the RequestAuthorizerArgs of a call of getRequestLambdaAuthorizerDefinition
    authorizer, \* the LambdaAuthorizerDefinition it returns, or its error
    promise, \* the promise given to promiseResult
    promiseCall \* the call of promiseResult(promise)

vars == <<vpcArgs, vpc, taskArgs, run, requests, runTaskIn, runTaskOut,
          buildPair, imageNames, containerIn, assembled,
          existingIn, existingVpc,
          awsAccount, defaultVpc, getDefaultCalls,
          aliasIn, aliasOut,
          endpointIn, endpointOut,
          authorizerArgs, authorizer,
          promise, promiseCall>>

NoVpcArgs ==
    [cidrBlock |-> None, numberOfAvailabilityZones |-> None,
     numberOfNatGateways |-> None, subnets |-> None]

NoTaskArgs ==
    [name |-> "", logGroup |-> FALSE, taskRole |-> FALSE, executionRole |-> FALSE,
     containers |-> <<>>]

\* The variables a specification leaves at their initial values.
IdleVpc == vpcArgs = NoVpcArgs /\ vpc = NewVpc
IdleTask == taskArgs = NoTaskArgs /\ run = NewRun /\ requests = 0
IdleRunTask == runTaskIn = NoRunTaskInput /\ runTaskOut = NotRun
IdleImageNames ==
    buildPair = <<NoBuildRequest, NoBuildRequest>> /\ imageNames = NoImageNames
IdleContainer == containerIn = NoContainerRequest /\ assembled = NotAssembled
IdleExistingVpc == existingIn = NoExistingVpcRequest /\ existingVpc = NewExistingVpc
IdleDefaultVpc == awsAccount = NoAccount /\ defaultVpc = None /\ getDefaultCalls = <<>>
IdleAliases == aliasIn = NoAliasRequest /\ aliasOut = NoAliasResult
IdleEndpoint == endpointIn = NoEndpointRequest /\ endpointOut = NoEndpointResult
IdleAuthorizer == authorizerArgs = NoAuthorizerArgs /\ authorizer = NoAuthorizerDefinition
IdlePromise == promise = PendingPromise /\ promiseCall = NotCalled

\* ------------------------------------------------------------------------
\* Specification of Vpc construction
\* ------------------------------------------------------------------------
VpcInit ==
    /\ vpcArgs \in VpcArgs
    /\ vpc = NewVpc
    /\ IdleTask /\ IdleRunTask /\ IdleImageNames /\ IdleContainer /\ IdleExistingVpc
    /\ IdlePromise
    /\ IdleAuthorizer
    /\ IdleEndpoint
    /\ IdleAliases
    /\ IdleDefaultVpc

\* new Vpc(name, args)
ConstructVpc ==
    /\ vpc.status = "new"
    /\ vpc' = VpcConstructor(vpcArgs)
    /\ UNCHANGED <<vpcArgs, taskArgs, run, requests, runTaskIn, runTaskOut,
                    buildPair, imageNames,
                    containerIn, assembled,
                    existingIn, existingVpc,
                    awsAccount, defaultVpc, getDefaultCalls,
                    aliasIn, aliasOut,
                    endpointIn, endpointOut,
                    authorizerArgs, authorizer,
                    promise, promiseCall>>

VpcNext == ConstructVpc

VpcSpec == VpcInit /\ [][VpcNext]_vars

\* ------------------------------------------------------------------------
\* Deferred callbacks (both container specifications)
\* ------------------------------------------------------------------------
RemoveAt(seq, i) == SubSeq(seq, 1, i - 1) \o SubSeq(seq, i + 1, Len(seq))

\* The engine runs one of the deferred callbacks of computeImageFromBuild,
\* in any order.
RunDeferred ==
    /\ \E i \in 1..Len(run.pending), ok \in BOOLEAN :
          run' = [computeImageFromBuildWorker(run, run.pending[i], ok)
                    EXCEPT !.pending = RemoveAt(run.pending, i)]
    /\ UNCHANGED <<vpcArgs, vpc, taskArgs, requests, runTaskIn, runTaskOut,
                    buildPair, imageNames,
                    containerIn, assembled,
                    existingIn, existingVpc,
                    awsAccount, defaultVpc, getDefaultCalls,
                    aliasIn, aliasOut,
                    endpointIn, endpointOut,
                    authorizerArgs, authorizer,
                    promise, promiseCall>>

\* ------------------------------------------------------------------------
\* Specification of the construction of a task definition
\* ------------------------------------------------------------------------
TaskInit ==
    /\ IdleVpc /\ IdleRunTask /\ IdleImageNames /\ IdleContainer /\ IdleExistingVpc
    /\ IdlePromise
    /\ IdleAuthorizer
    /\ IdleEndpoint
    /\ IdleAliases
    /\ IdleDefaultVpc
    /\ taskArgs \in [ name : ComponentNames, logGroup : BOOLEAN, taskRole : BOOLEAN,
                      executionRole : BOOLEAN, containers : ContainerLists ]
    /\ run = NewRun
    /\ requests = 0

\* new ClusterTaskDefinition(type, name, cluster, args, ...)
ConstructTaskDefinition ==
    /\ run.status = "new"
    /\ run' = ClusterTaskDefinitionConstructor(run, taskArgs.name, taskArgs)
    /\ requests' = requests + Len(taskArgs.containers)
    /\ UNCHANGED <<vpcArgs, vpc, taskArgs, runTaskIn, runTaskOut, buildPair, imageNames,
                    containerIn, assembled,
                    existingIn, existingVpc,
                    awsAccount, defaultVpc, getDefaultCalls,
                    aliasIn, aliasOut,
                    endpointIn, endpointOut,
                    authorizerArgs, authorizer,
                    promise, promiseCall>>

TaskNext == ConstructTaskDefinition \/ RunDeferred

TaskSpec == TaskInit /\ [][TaskNext]_vars

\* ------------------------------------------------------------------------
\* Specification of the build image cache
\* ------------------------------------------------------------------------
BuildInit == IdleVpc /\ IdleTask /\ IdleRunTask /\ IdleImageNames /\ IdleContainer
    /\ IdlePromise
    /\ IdleAuthorizer
    /\ IdleEndpoint
    /\ IdleAliases
    /\ IdleDefaultVpc
    /\ IdleExistingVpc

\* computeContainerDefinition(parent, name, containerName, container, logGroup),
\* up to the point where it returns its deferred result.
ComputeContainerDefinition ==
    /\ requests < MaxRequests
    /\ \E name \in ComponentNames, container \in ContainerDefinitions :
          run' = computeImage([run EXCEPT !.status = "new", !.error = "none"],
                              name, container)
    /\ requests' = requests + 1
    /\ UNCHANGED <<vpcArgs, vpc, taskArgs, runTaskIn, runTaskOut, buildPair, imageNames,
                    containerIn, assembled,
                    existingIn, existingVpc,
                    awsAccount, defaultVpc, getDefaultCalls,
                    aliasIn, aliasOut,
                    endpointIn, endpointOut,
                    authorizerArgs, authorizer,
                    promise, promiseCall>>

BuildNext == ComputeContainerDefinition \/ RunDeferred

BuildSpec == BuildInit /\ [][BuildNext]_vars

\* ------------------------------------------------------------------------
\* Specification of run(options)
\* ------------------------------------------------------------------------
RunTaskInit ==
    /\ IdleVpc /\ IdleTask /\ IdleImageNames /\ IdleContainer /\ IdleExistingVpc
    /\ IdlePromise
    /\ IdleAuthorizer
    /\ IdleEndpoint
    /\ IdleAliases
    /\ IdleDefaultVpc
    /\ runTaskIn \in RunTaskInputs
    /\ runTaskOut = NotRun

\* taskDefinition.run(options)
RunTask ==
    /\ runTaskOut.status = "new"
    /\ runTaskOut' = runTask(runTaskIn)
    /\ UNCHANGED <<vpcArgs, vpc, taskArgs, run, requests, runTaskIn, buildPair, imageNames,
                    containerIn, assembled,
                    existingIn, existingVpc,
                    awsAccount, defaultVpc, getDefaultCalls,
                    aliasIn, aliasOut,
                    endpointIn, endpointOut,
                    authorizerArgs, authorizer,
                    promise, promiseCall>>

RunTaskNext == RunTask

RunTaskSpec == RunTaskInit /\ [][RunTaskNext]_vars

\* ------------------------------------------------------------------------
\* Specification of getBuildImageName
\* ------------------------------------------------------------------------
ImageNameInit ==
    /\ IdleVpc /\ IdleTask /\ IdleRunTask /\ IdleContainer /\ IdleExistingVpc /\ IdleAliases
    /\ IdlePromise
    /\ IdleAuthorizer
    /\ IdleEndpoint
    /\ IdleDefaultVpc
    /\ buildPair \in BuildRequests \X BuildRequests
    /\ imageNames = NoImageNames

\* getBuildImageName(name, build) for both requests
GetBuildImageNames ==
    /\ imageNames = NoImageNames
    /\ imageNames' = << getBuildImageName(buildPair[1].name, buildPair[1].build),
                        getBuildImageName(buildPair[2].name, buildPair[2].build) >>
    /\ UNCHANGED <<vpcArgs, vpc, taskArgs, run, requests, runTaskIn, runTaskOut, buildPair,
                    containerIn, assembled,
                    existingIn, existingVpc,
                    awsAccount, defaultVpc, getDefaultCalls,
                    aliasIn, aliasOut,
                    endpointIn, endpointOut,
                    authorizerArgs, authorizer,
                    promise, promiseCall>>

ImageNameNext == GetBuildImageNames

ImageNameSpec == ImageNameInit /\ [][ImageNameNext]_vars

\* ------------------------------------------------------------------------
\* Specification of computeContainerDefinition
\* ------------------------------------------------------------------------
ContainerInit ==
    /\ IdleVpc /\ IdleTask /\ IdleRunTask /\ IdleImageNames /\ IdleExistingVpc /\ IdleAliases
    /\ IdlePromise
    /\ IdleAuthorizer
    /\ IdleEndpoint
    /\ IdleDefaultVpc
    /\ containerIn \in ContainerRequests
    /\ assembled = NotAssembled

\* computeContainerDefinition(parent, name, containerName, container, logGroup)
\* of the Container interface, with its callback.
ComputeDefinition ==
    /\ assembled.current = None
    /\ assembled' = [assembled EXCEPT !.current =
          Some(computeContainerDefinition(containerIn.containerName,
                                          containerIn.container, containerIn.logGroupId))]
    /\ UNCHANGED <<vpcArgs, vpc, taskArgs, run, requests, runTaskIn, runTaskOut,
                    buildPair, imageNames, containerIn,
                    existingIn, existingVpc,
                    awsAccount, defaultVpc, getDefaultCalls,
                    aliasIn, aliasOut,
                    endpointIn, endpointOut,
                    authorizerArgs, authorizer,
                    promise, promiseCall>>

\* The callback of computeContainerDefinition for a ContainerDefinition that
\* names its image; its environment is the container's own.
ComputeDefinitionCallback ==
    /\ assembled.legacy = None
    /\ ~isContainerImageProvider(containerIn.container.image)
    /\ assembled' = [assembled EXCEPT !.legacy =
          Some(computeContainerDefinitionCallback(
                  containerIn.containerName, containerIn.container,
                  createImageOptions(containerIn.container.image.image,
                                     preEnvOf(containerIn.container)),
                  containerIn.logGroupId))]
    /\ UNCHANGED <<vpcArgs, vpc, taskArgs, run, requests, runTaskIn, runTaskOut,
                    buildPair, imageNames, containerIn,
                    existingIn, existingVpc,
                    awsAccount, defaultVpc, getDefaultCalls,
                    aliasIn, aliasOut,
                    endpointIn, endpointOut,
                    authorizerArgs, authorizer,
                    promise, promiseCall>>

ContainerNext == ComputeDefinition \/ ComputeDefinitionCallback

ContainerSpec == ContainerInit /\ [][ContainerNext]_vars

\* ------------------------------------------------------------------------
\* Specification: a Vpc over an existing VPC
\* ------------------------------------------------------------------------
ExistingVpcInit ==
    /\ IdleVpc /\ IdleTask /\ IdleRunTask /\ IdleImageNames /\ IdleContainer /\ IdleAliases
    /\ IdlePromise
    /\ IdleAuthorizer
    /\ IdleEndpoint
    /\ IdleDefaultVpc
    /\ existingIn \in ExistingVpcRequests
    /\ existingVpc = NewExistingVpc

\* new Vpc(name, args, opts) with ExistingVpcArgs
ConstructExistingVpc ==
    /\ existingVpc.status = "new"
    /\ isExistingVpcArgs(existingIn.args)
    /\ existingVpc' =
          ExistingVpcConstructor(existingIn.name, existingIn.args, existingIn.opts)
    /\ UNCHANGED <<vpcArgs, vpc, taskArgs, run, requests, runTaskIn, runTaskOut,
                    buildPair, imageNames, containerIn, assembled,
                    existingIn, awsAccount, defaultVpc, getDefaultCalls,
                    aliasIn, aliasOut,
                    endpointIn, endpointOut,
                    authorizerArgs, authorizer,
                    promise, promiseCall>>

ExistingVpcNext == ConstructExistingVpc

ExistingVpcSpec == ExistingVpcInit /\ [][ExistingVpcNext]_vars

\* ------------------------------------------------------------------------
\* Specification: calls of Vpc.getDefault in one process
\* ------------------------------------------------------------------------
DefaultVpcInit ==
    /\ IdleVpc /\ IdleTask /\ IdleRunTask /\ IdleImageNames /\ IdleContainer /\ IdleAliases
    /\ IdlePromise
    /\ IdleAuthorizer
    /\ IdleEndpoint
    /\ IdleExistingVpc
    /\ awsAccount \in Accounts
    /\ defaultVpc = None
    /\ getDefaultCalls = <<>>

\* Vpc.getDefault(opts)
GetDefault ==
    /\ Len(getDefaultCalls) < MaxCalls
    /\ \E opts \in ResourceOptions :
          LET call == getDefault(defaultVpc, awsAccount, opts)
          IN /\ defaultVpc' = call.defaultVpc
             /\ getDefaultCalls' =
                   Append(getDefaultCalls,
                          [ opts |-> opts, result |-> call.result,
                            registered |-> call.registered ])
    /\ UNCHANGED <<vpcArgs, vpc, taskArgs, run, requests, runTaskIn, runTaskOut,
                    buildPair, imageNames, containerIn, assembled,
                    existingIn, existingVpc, awsAccount,
                    aliasIn, aliasOut,
                    endpointIn, endpointOut,
                    authorizerArgs, authorizer,
                    promise, promiseCall>>

DefaultVpcNext == GetDefault

DefaultVpcSpec == DefaultVpcInit /\ [][DefaultVpcNext]_vars

\* ------------------------------------------------------------------------
\* Specification: adding aliases to resource options
\* ------------------------------------------------------------------------
AliasInit ==
    /\ IdleVpc /\ IdleTask /\ IdleRunTask /\ IdleImageNames /\ IdleContainer /\ IdleEndpoint
    /\ IdlePromise
    /\ IdleAuthorizer
    /\ IdleExistingVpc /\ IdleDefaultVpc
    /\ aliasIn \in AliasRequests
    /\ aliasOut = NoAliasResult

\* withAliases(opts, aliases)
WithAliases ==
    /\ aliasOut.status = "new"
    /\ aliasOut' = [ status |-> "ok", via |-> "withAliases", opts |-> aliasIn.opts,
                     result |-> withAliases(aliasIn.opts, aliasIn.aliases) ]
    /\ UNCHANGED <<vpcArgs, vpc, taskArgs, run, requests, runTaskIn, runTaskOut,
                    buildPair, imageNames, containerIn, assembled,
                    existingIn, existingVpc, awsAccount, defaultVpc, getDefaultCalls,
                    aliasIn,
                    endpointIn, endpointOut,
                    authorizerArgs, authorizer,
                    promise, promiseCall>>

\* withAlias(opts, alias)
WithAlias ==
    /\ aliasOut.status = "new"
    /\ Len(aliasIn.aliases) = 1
    /\ aliasOut' = [ status |-> "ok", via |-> "withAlias", opts |-> aliasIn.opts,
                     result |-> withAlias(aliasIn.opts, aliasIn.aliases[1]) ]
    /\ UNCHANGED <<vpcArgs, vpc, taskArgs, run, requests, runTaskIn, runTaskOut,
                    buildPair, imageNames, containerIn, assembled,
                    existingIn, existingVpc, awsAccount, defaultVpc, getDefaultCalls,
                    aliasIn,
                    endpointIn, endpointOut,
                    authorizerArgs, authorizer,
                    promise, promiseCall>>

AliasNext == WithAliases \/ WithAlias

AliasSpec == AliasInit /\ [][AliasNext]_vars

\* ------------------------------------------------------------------------
\* Specification: looking up an endpoint of a task definition
\* ------------------------------------------------------------------------
EndpointInit ==
    /\ IdleVpc /\ IdleTask /\ IdleRunTask /\ IdleImageNames /\ IdleContainer /\ IdlePromise
    /\ IdleAuthorizer
    /\ IdleExistingVpc /\ IdleDefaultVpc /\ IdleAliases
    /\ endpointIn \in EndpointRequests
    /\ endpointOut = NoEndpointResult

\* taskDefinition.getEndpoint(containerName, containerPort)
GetEndpoint ==
    /\ endpointOut.status = "new"
    /\ endpointOut' = getEndpointHelper(endpointIn.endpoints, endpointIn.containerName,
                                        endpointIn.containerPort)
    /\ UNCHANGED <<vpcArgs, vpc, taskArgs, run, requests, runTaskIn, runTaskOut,
                    buildPair, imageNames, containerIn, assembled,
                    existingIn, existingVpc, awsAccount, defaultVpc, getDefaultCalls,
                    aliasIn, aliasOut, endpointIn,
                    authorizerArgs, authorizer,
                    promise, promiseCall>>

EndpointNext == GetEndpoint

EndpointSpec == EndpointInit /\ [][EndpointNext]_vars

\* ------------------------------------------------------------------------
\* Specification: the definition of a request Lambda authorizer
\* ------------------------------------------------------------------------
AuthorizerInit ==
    /\ IdleVpc /\ IdleTask /\ IdleRunTask /\ IdleImageNames /\ IdleContainer /\ IdlePromise
    /\ IdleExistingVpc /\ IdleDefaultVpc /\ IdleAliases /\ IdleEndpoint
    /\ authorizerArgs \in RequestAuthorizerArgs
    /\ authorizer = NoAuthorizerDefinition

\* getRequestLambdaAuthorizerDefinition(args)
GetRequestLambdaAuthorizerDefinition ==
    /\ authorizer.status = "new"
    /\ authorizer' = getRequestLambdaAuthorizerDefinition(authorizerArgs)
    /\ UNCHANGED <<vpcArgs, vpc, taskArgs, run, requests, runTaskIn, runTaskOut,
                    buildPair, imageNames, containerIn, assembled,
                    existingIn, existingVpc, awsAccount, defaultVpc, getDefaultCalls,
                    aliasIn, aliasOut, endpointIn, endpointOut, authorizerArgs,
                    promise, promiseCall>>

AuthorizerNext == GetRequestLambdaAuthorizerDefinition

AuthorizerSpec == AuthorizerInit /\ [][AuthorizerNext]_vars

\* ------------------------------------------------------------------------
\* Specification: waiting for a promise with promiseResult
\* ------------------------------------------------------------------------
PromiseInit ==
    /\ IdleVpc /\ IdleTask /\ IdleRunTask /\ IdleImageNames /\ IdleContainer
    /\ IdleExistingVpc /\ IdleDefaultVpc /\ IdleAliases /\ IdleEndpoint
    /\ IdleAuthorizer
    /\ promise = PendingPromise
    /\ promiseCall = NotCalled

\* The promise settles, before the call or while it waits.
Settle ==
    /\ promise.state = "pending"
    /\ \/ \E val \in PromiseValues : promise' = Fulfilled(val)
       \/ \E err \in RejectionReasons : promise' = Rejected(err)
    /\ UNCHANGED <<vpcArgs, vpc, taskArgs, run, requests, runTaskIn, runTaskOut,
                    buildPair, imageNames, containerIn, assembled,
                    existingIn, existingVpc, awsAccount, defaultVpc, getDefaultCalls,
                    aliasIn, aliasOut, endpointIn, endpointOut, authorizerArgs,
                    authorizer, promiseCall>>

\* promiseResult(promise), up to the start of deasync.loopWhile
CallPromiseResult ==
    /\ promiseCall.pc = "new"
    /\ promiseCall' = thenRegistered(promiseCall)
    /\ UNCHANGED <<vpcArgs, vpc, taskArgs, run, requests, runTaskIn, runTaskOut,
                    buildPair, imageNames, containerIn, assembled,
                    existingIn, existingVpc, awsAccount, defaultVpc, getDefaultCalls,
                    aliasIn, aliasOut, endpointIn, endpointOut, authorizerArgs,
                    authorizer, promise>>

\* A turn of the event loop inside loopWhile in which no callback of the
\* promise runs.
LoopTurn ==
    /\ promiseCall.pc = "loopWhile"
    /\ loopCondition(promiseCall)
    /\ promiseCall.turns < MaxTurns
    /\ promiseCall' = [promiseCall EXCEPT !.turns = @ + 1]
    /\ UNCHANGED <<vpcArgs, vpc, taskArgs, run, requests, runTaskIn, runTaskOut,
                    buildPair, imageNames, containerIn, assembled,
                    existingIn, existingVpc, awsAccount, defaultVpc, getDefaultCalls,
                    aliasIn, aliasOut, endpointIn, endpointOut, authorizerArgs,
                    authorizer, promise>>

\* The event loop runs the callback registered for the way the promise has
\* settled; a promise runs one of the two, once.
RunReaction ==
    /\ promiseCall.pc = "loopWhile"
    /\ promiseCall.reaction = "registered"
    /\ promise.state # "pending"
    /\ promiseCall' = IF promise.state = "fulfilled"
                      THEN onFulfilled(promiseCall, Get(promise.value))
                      ELSE onRejected(promiseCall, Get(promise.value))
    /\ UNCHANGED <<vpcArgs, vpc, taskArgs, run, requests, runTaskIn, runTaskOut,
                    buildPair, imageNames, containerIn, assembled,
                    existingIn, existingVpc, awsAccount, defaultVpc, getDefaultCalls,
                    aliasIn, aliasOut, endpointIn, endpointOut, authorizerArgs,
                    authorizer, promise>>

\* loopWhile finds its condition false; the call throws or returns.
ExitLoop ==
    /\ promiseCall.pc = "loopWhile"
    /\ ~loopCondition(promiseCall)
    /\ promiseCall' = afterLoop(promiseCall)
    /\ UNCHANGED <<vpcArgs, vpc, taskArgs, run, requests, runTaskIn, runTaskOut,
                    buildPair, imageNames, containerIn, assembled,
                    existingIn, existingVpc, awsAccount, defaultVpc, getDefaultCalls,
                    aliasIn, aliasOut, endpointIn, endpointOut, authorizerArgs,
                    authorizer, promise>>

PromiseNext == Settle \/ CallPromiseResult \/ LoopTurn \/ RunReaction \/ ExitLoop

PromiseSpec == PromiseInit /\ [][PromiseNext]_vars

\* deasync.loopWhile keeps running the event loop, which runs a callback that
\* is due, and tests its condition after every turn.
PromiseFairSpec ==
    PromiseSpec /\ WF_vars(RunReaction) /\ WF_vars(ExitLoop)

\* ------------------------------------------------------------------------
\* Properties of Vpc construction
\* ------------------------------------------------------------------------
AllSubnets == (vpc.publicSubnets \o vpc.privateSubnets) \o vpc.isolatedSubnets

\* The constructor got past createSubnets.
SubnetsCreated ==
    /\ vpc.status # "new"
    /\ vpc.error \notin {"tooManyNatGateways", "cidrTooSmall"}

HasType(specs, type) == \E s \in 1..Len(specs) : specs[s].type = type

\* C1: whenever the partitioner succeeds it has produced exactly
\* zoneCount * len(subnetSpecs) CIDR blocks, each one inside the parent block
\* and no two of them overlapping.
C1_PartitionDisjointContained ==
    SubnetsCreated =>
        /\ Len(AllSubnets) =
              numberOfAvailabilityZonesOf(vpcArgs) * Len(subnetsOf(vpcArgs))
        /\ \A i \in 1..Len(AllSubnets) :
              Contains(cidrBlockOf(vpcArgs), AllSubnets[i].cidrBlock)
        /\ \A i, j \in 1..Len(AllSubnets) :
              i # j => ~Overlap(AllSubnets[i].cidrBlock, AllSubnets[j].cidrBlock)

C1_Witness ==
    /\ SubnetsCreated
    /\ Len(AllSubnets) >= 6
    /\ numberOfNatGatewaysOf(vpcArgs) < numberOfAvailabilityZonesOf(vpcArgs)
    /\ \E s \in 1..Len(subnetsOf(vpcArgs)) : IsSome(subnetsOf(vpcArgs)[s].cidrMask)
    /\ \E s \in 1..Len(subnetsOf(vpcArgs)) : ~IsSome(subnetsOf(vpcArgs)[s].cidrMask)

\* C2 (as claimed): with a public and a private spec and
\* 0 < numberOfNatGateways <= numberOfAvailabilityZones, every private subnet
\* ends up with exactly one 0.0.0.0/0 route, and that route targets a NAT
\* gateway that was created.
C2_EveryPrivateSubnetRouted ==
    ( /\ SubnetsCreated
      /\ HasType(subnetsOf(vpcArgs), "public")
      /\ HasType(subnetsOf(vpcArgs), "private")
      /\ numberOfNatGatewaysOf(vpcArgs) > 0
      /\ numberOfNatGatewaysOf(vpcArgs) <= numberOfAvailabilityZonesOf(vpcArgs) )
    => \A i \in 1..Len(vpc.privateSubnets) :
          LET routes == vpc.privateSubnets[i].routes
          IN  /\ Len(routes) = 1
              /\ routes[1].destinationCidrBlock = "0.0.0.0/0"
              /\ IsSome(routes[1].natGatewayId)
              /\ Get(routes[1].natGatewayId) < Len(vpc.natGateways)

\* C3: a construction with numberOfNatGateways > numberOfAvailabilityZones
\* (after defaults) ends in the validation error, and at that point the
\* constructor has declared no resource.
C3_TooManyNatGatewaysFailsFirst ==
    ( /\ vpc.status # "new"
      /\ numberOfNatGatewaysOf(vpcArgs) > numberOfAvailabilityZonesOf(vpcArgs) )
    => /\ vpc.status = "error"
       /\ vpc.error = "tooManyNatGateways"
       /\ vpc.declared = <<>>
       /\ AllSubnets = <<>>

C3_Witness ==
    /\ vpc.status = "error"
    /\ vpc.error = "tooManyNatGateways"
    /\ numberOfNatGatewaysOf(vpcArgs) = numberOfAvailabilityZonesOf(vpcArgs) + 1

\* C4 (as claimed): when the parent block is too small for the requested
\* split, the error is raised before any resource has been declared.
C4_TooSmallBeforeAnyResource ==
    (vpc.status = "error" /\ vpc.error = "cidrTooSmall") => vpc.declared = <<>>

\* C9: chunks are handed out in input order, each spec across all the zones
\* before the next spec; the default input gives four /18 blocks with the
\* public subnet of zone 0 before the private subnet of zone 0; and entry z
\* of every band of numberOfAvailabilityZones subnets of a per-type list
\* lies in zone z.
Before(a, b) == a.spec < b.spec \/ (a.spec = b.spec /\ a.zone < b.zone)

BandsFollowZones(list) ==
    \A i \in 1..Len(list) :
        list[i].zone = (i - 1) % numberOfAvailabilityZonesOf(vpcArgs)

C9_PartitionOrder ==
    SubnetsCreated =>
        /\ \A i, j \in 1..Len(AllSubnets) :
              Before(AllSubnets[i], AllSubnets[j])
                  => BlockEnd(AllSubnets[i].cidrBlock) <= AllSubnets[j].cidrBlock.start
        /\ BandsFollowZones(vpc.publicSubnets)
        /\ BandsFollowZones(vpc.privateSubnets)
        /\ BandsFollowZones(vpc.isolatedSubnets)
        /\ ( /\ cidrBlockOf(vpcArgs) = DefaultCidrBlock
             /\ numberOfAvailabilityZonesOf(vpcArgs) = 2
             /\ subnetsOf(vpcArgs) = DefaultSubnets )
           => /\ Len(AllSubnets) = 4
              /\ \A i \in 1..4 : AllSubnets[i].cidrBlock.mask = 18
              /\ vpc.publicSubnets[1].cidrBlock = Cidr(10, 0, 0, 0, 18)
              /\ vpc.publicSubnets[2].cidrBlock = Cidr(10, 0, 64, 0, 18)
              /\ vpc.privateSubnets[1].cidrBlock = Cidr(10, 0, 128, 0, 18)
              /\ vpc.privateSubnets[2].cidrBlock = Cidr(10, 0, 192, 0, 18)

C9_Witness ==
    /\ SubnetsCreated
    /\ Len(vpc.privateSubnets) = 2 * numberOfAvailabilityZonesOf(vpcArgs)
    /\ numberOfAvailabilityZonesOf(vpcArgs) >= 2
    /\ numberOfNatGatewaysOf(vpcArgs) # numberOfAvailabilityZonesOf(vpcArgs)
    /\ Len(vpc.publicSubnets) > 0

\* ------------------------------------------------------------------------
\* Properties of the build image cache
\* ------------------------------------------------------------------------
ContextOf(build) ==
    IF IsSome(build.context) /\ Get(build.context) # "" THEN Get(build.context) ELSE "."

DockerfileOf(build) ==
    IF IsSome(build.dockerfile) /\ Get(build.dockerfile) # "" THEN build.dockerfile ELSE None

ArgSeqOf(build) == IF IsSome(build.args) THEN Get(build.args) ELSE <<>>

ArgSetOf(build) == { ArgSeqOf(build)[i] : i \in 1..Len(ArgSeqOf(build)) }

\* Identical context, Dockerfile and set of build arguments.
SameBuildInputs(a, b) ==
    /\ ContextOf(a) = ContextOf(b)
    /\ DockerfileOf(a) = DockerfileOf(b)
    /\ ArgSetOf(a) = ArgSetOf(b)

\* Identical context, Dockerfile and build arguments in the same order.
SameOrderedBuildInputs(a, b) ==
    /\ ContextOf(a) = ContextOf(b)
    /\ DockerfileOf(a) = DockerfileOf(b)
    /\ ArgSeqOf(a) = ArgSeqOf(b)

ImageNamesComputed == imageNames # NoImageNames

\* No ';' in the context path (the other strings of the inputs have none).
PlainBuild(build) == ContextOf(build) \in {".", "./app"}

SetsNoImageSource(container) ==
    ~IsSome(container.image) /\ ~IsSome(container.build) /\ ~container.function

\* C7 (as claimed): when a container sets none of image, build and function,
\* computing the container definitions fails with 'Invalid container
\* definition', and nothing has been declared for the task definition when
\* the error is raised.
C7_InvalidBeforeAnyDeclaration ==
    ( /\ run.status # "new"
      /\ run.error # "Only a single container can specify a [loadBalancerPort]."
      /\ \E i \in 1..Len(taskArgs.containers) :
            SetsNoImageSource(taskArgs.containers[i]) )
    => /\ run.status = "error"
       /\ run.error = "Invalid container definition"
       /\ run.declared = <<>>

\* ------------------------------------------------------------------------
\* Properties of run(options)
\* ------------------------------------------------------------------------
\* The run request was sent and answered with a non-empty failure list.
ReportsFailures ==
    /\ IsSome(runTaskOut.request)
    /\ ~runTaskIn.res.rejected
    /\ IsSome(runTaskIn.res.failures)
    /\ Get(runTaskIn.res.failures) # <<>>

\* C8 (as claimed): when the run request reports failures the helper does
\* not throw; it returns, handing the failures to the caller.
C8_FailuresReturned ==
    ReportsFailures =>
        /\ runTaskOut.status = "returned"
        /\ runTaskOut.failures = Get(runTaskIn.res.failures)

\* C8 (amended): when the run request reports failures the helper throws
\* 'Failed to start task:' with the reported failures; when the request is
\* answered without failures it returns, with no value.
C8_FailuresThrown ==
    (IsSome(runTaskOut.request) /\ ~runTaskIn.res.rejected) =>
        IF ReportsFailures
        THEN /\ runTaskOut.status = "thrown"
             /\ runTaskOut.error = "Failed to start task:"
             /\ runTaskOut.failures = Get(runTaskIn.res.failures)
        ELSE /\ runTaskOut.status = "returned"
             /\ runTaskOut.failures = <<>>

C8_Witness ==
    /\ ReportsFailures
    /\ runTaskOut.status = "thrown"
    /\ Len(runTaskOut.failures) = 2

\* ------------------------------------------------------------------------
\* Properties of the gateways of a Vpc
\* ------------------------------------------------------------------------
RECURSIVE Count(_, _)
Count(seq, x) ==
    IF seq = <<>> THEN 0
    ELSE (IF Head(seq) = x THEN 1 ELSE 0) + Count(Tail(seq), x)

\* The three conditions under which createNatGateways goes on.
NatGatewaysWanted ==
    /\ Len(vpc.privateSubnets) > 0
    /\ Len(vpc.publicSubnets) > 0
    /\ numberOfNatGatewaysOf(vpcArgs) > 0

\* C11: NAT gateways and their elastic IPs are created only when the Vpc has
\* a private subnet, a public subnet and numberOfNatGateways > 0, and then
\* exactly numberOfNatGateways of each exist; in every other case
\* createNatGateways returns having declared no Eip, no NatGateway and no
\* route.
C11_NatGatewaysOnlyWhenWanted ==
    SubnetsCreated =>
        IF NatGatewaysWanted
        THEN /\ Len(vpc.natGateways) = numberOfNatGatewaysOf(vpcArgs)
             /\ Count(vpc.declared, "aws:ec2:Eip") = numberOfNatGatewaysOf(vpcArgs)
             /\ Count(vpc.declared, "aws:ec2:NatGateway") = numberOfNatGatewaysOf(vpcArgs)
        ELSE /\ vpc.status = "ok"
             /\ vpc.natGateways = <<>>
             /\ Count(vpc.declared, "aws:ec2:Eip") = 0
             /\ Count(vpc.declared, "aws:ec2:NatGateway") = 0
             /\ \A i \in 1..Len(vpc.privateSubnets) : vpc.privateSubnets[i].routes = <<>>
             /\ Count(vpc.declared, "aws:ec2:Route") =
                   (IF IsSome(vpc.internetGateway) THEN Len(vpc.publicSubnets) ELSE 0)

C11_Witness ==
    /\ vpc.status = "ok"
    /\ NatGatewaysWanted
    /\ Len(vpc.natGateways) = 2
    /\ numberOfAvailabilityZonesOf(vpcArgs) = 3
    /\ Count(vpc.declared, "aws:ec2:Eip") = 2

\* C12: an internet gateway exists after construction exactly when the Vpc
\* has a public subnet; every public subnet then has exactly one route, for
\* 0.0.0.0/0, and it targets the gateway; no private or isolated subnet has a
\* route to the gateway.
C12_InternetGatewayIffPublic ==
    SubnetsCreated =>
        /\ IsSome(vpc.internetGateway) <=> Len(vpc.publicSubnets) > 0
        /\ Count(vpc.declared, "aws:ec2:InternetGateway") =
              (IF Len(vpc.publicSubnets) > 0 THEN 1 ELSE 0)
        /\ \A i \in 1..Len(vpc.publicSubnets) :
              /\ Len(vpc.publicSubnets[i].routes) = 1
              /\ vpc.publicSubnets[i].routes[1].destinationCidrBlock = "0.0.0.0/0"
              /\ vpc.publicSubnets[i].routes[1].gatewayId = vpc.internetGateway
        /\ \A i \in 1..Len(vpc.privateSubnets) :
              \A r \in 1..Len(vpc.privateSubnets[i].routes) :
                  ~IsSome(vpc.privateSubnets[i].routes[r].gatewayId)
        /\ \A i \in 1..Len(vpc.isolatedSubnets) : vpc.isolatedSubnets[i].routes = <<>>

C12_Witness ==
    /\ vpc.status = "ok"
    /\ IsSome(vpc.internetGateway)
    /\ Len(vpc.publicSubnets) >= 2
    /\ Len(vpc.privateSubnets) >= 2
    /\ Len(vpc.isolatedSubnets) >= 2
    /\ \A i \in 1..Len(vpc.privateSubnets) : Len(vpc.privateSubnets[i].routes) = 1

\* The first public subnet of a zone, in the order the subnets were created.
FirstPublicSubnet(zone) ==
    LET P == { i \in 1..Len(vpc.publicSubnets) : vpc.publicSubnets[i].zone = zone }
    IN  vpc.publicSubnets[CHOOSE i \in P : \A j \in P : i <= j]

\* C13: NAT gateway i (0 <= i < numberOfNatGateways) sits in the first public
\* subnet of availability zone i; no two gateways share a zone and each of
\* the first numberOfNatGateways zones has exactly one.
C13_GatewayPerZone ==
    (SubnetsCreated /\ NatGatewaysWanted) =>
        /\ Len(vpc.natGateways) = numberOfNatGatewaysOf(vpcArgs)
        /\ \A i \in 1..Len(vpc.natGateways) :
              /\ vpc.natGateways[i].index = i - 1
              /\ vpc.natGateways[i].subnetId.zone = i - 1
              /\ vpc.natGateways[i].subnetId.type = "public"
              /\ vpc.natGateways[i].subnetId.cidrBlock = FirstPublicSubnet(i - 1).cidrBlock
        /\ \A i, j \in 1..Len(vpc.natGateways) :
              i # j => vpc.natGateways[i].subnetId.zone # vpc.natGateways[j].subnetId.zone

C13_Witness ==
    /\ vpc.status = "ok"
    /\ Len(vpc.natGateways) = 2
    /\ numberOfAvailabilityZonesOf(vpcArgs) = 3
    /\ Len(vpc.publicSubnets) = 6

\* C14 (as claimed): every private subnet in a zone that received a NAT
\* gateway (zone < numberOfNatGateways) has its one route through the
\* gateway of its own zone, in every band of private subnets.
C14_OwnZoneGateway ==
    (SubnetsCreated /\ NatGatewaysWanted) =>
        \A i \in 1..Len(vpc.privateSubnets) :
            LET zone == vpc.privateSubnets[i].zone
            IN  zone < numberOfNatGatewaysOf(vpcArgs) =>
                    /\ vpc.privateSubnets[i].routes = <<NatRoute(zone)>>
                    /\ vpc.natGateways[zone + 1].subnetId.zone = zone

\* C15 (as claimed): the round-robin index starts at 0 before the first band
\* and advances by one on each private subnet whose zone has no gateway of
\* its own, without a reset between bands, so the k-th such subnet (from 0,
\* in band then zone order) is routed through gateway number k of the
\* round-robin order over the created gateways.
C15_RoundRobinAcrossBands ==
    (SubnetsCreated /\ NatGatewaysWanted) =>
        \A i \in 1..Len(vpc.privateSubnets) :
            LET zones == numberOfAvailabilityZonesOf(vpcArgs)
                gateways == numberOfNatGatewaysOf(vpcArgs)
                zone == (i - 1) % zones
                band == (i - 1) \div zones
                k == band * (zones - gateways) + (zone - gateways)
            IN  zone >= gateways =>
                    vpc.privateSubnets[i].routes = <<NatRoute(k % gateways)>>

\* ------------------------------------------------------------------------
\* Properties of failing builds
\* ------------------------------------------------------------------------
\* Delivery i handed its request the result of a build or push that failed.
DeliveryFailed(i) == ~run.builds[run.images[i].image].ok

SetsFunctionWithImageOrBuild(container) ==
    container.function /\ (IsSome(container.image) \/ IsSome(container.build))

\* C20 (as claimed): a container definition that sets function together with
\* image or build is rejected; a definition is resolved from its function
\* only when neither image nor build is set.
C20_FunctionExcludesImageAndBuild ==
    ( /\ run.status # "new"
      /\ \E i \in 1..Len(taskArgs.containers) :
            SetsFunctionWithImageOrBuild(taskArgs.containers[i]) )
    => run.status = "error"

\* ------------------------------------------------------------------------
\* Properties of the assembled container definition
\* ------------------------------------------------------------------------
\* 'out' is the normalisation of 'in'.
Normalised(in, out) ==
    /\ Len(out) = Len(in)
    /\ \A i \in 1..Len(in) :
          /\ out[i].containerPort = in[i].containerPort
          /\ IsSome(in[i].hostPort) => out[i] = in[i]
          /\ ~IsSome(in[i].hostPort) =>
                out[i] = PortMapping(in[i].containerPort, Some(in[i].containerPort))

\* C16: normalisation gives a mapping without hostPort the same mapping with
\* hostPort equal to its containerPort, leaves a mapping with a hostPort as it
\* is, keeps order and length, and applied again changes nothing.
C16_PortMappingsNormalised ==
    /\ (IsSome(assembled.current) /\ IsSome(containerIn.container.portMappings)) =>
          LET out == Get(Get(assembled.current).portMappings)
          IN  /\ Normalised(Get(containerIn.container.portMappings), out)
              /\ convertMappings(out) = out
    /\ (IsSome(assembled.legacy) /\ IsSome(containerIn.container.portMappings)) =>
          LET out == Get(assembled.legacy).portMappings
          IN  /\ Normalised(Get(containerIn.container.portMappings), out)
              /\ \A i \in 1..Len(out) : initializePortMapping(out[i]) = out[i]

C16_Witness ==
    /\ IsSome(assembled.current)
    /\ IsSome(assembled.legacy)
    /\ IsSome(containerIn.container.portMappings)
    /\ Get(containerIn.container.portMappings) =
          << PortMapping(80, None), PortMapping(443, Some(0)) >>
    /\ Get(assembled.current).portMappings =
          Some(<< PortMapping(80, Some(80)), PortMapping(443, Some(0)) >>)
    /\ Get(assembled.legacy).portMappings =
          << PortMapping(80, Some(80)), PortMapping(443, Some(0)) >>

UserEnvironment ==
    IF IsSome(containerIn.container.environment)
    THEN Get(containerIn.container.environment) ELSE <<>>

ProviderEnvironment ==
    IF IsSome(containerIn.container.image.environment)
    THEN Get(containerIn.container.image.environment) ELSE <<>>

\* C17: with an image provider the environment of the definition is the
\* user's variables in their order followed by the provider's in theirs,
\* none removed even when a key occurs in both; with a plain image string it
\* is the user's environment unchanged.
C17_EnvironmentUserThenProvider ==
    IsSome(assembled.current) =>
        LET environment == Get(assembled.current).environment
        IN  IF containerIn.container.image.kind = "provider"
            THEN /\ IsSome(environment)
                 /\ Len(Get(environment)) = Len(UserEnvironment) + Len(ProviderEnvironment)
                 /\ \A i \in 1..Len(UserEnvironment) :
                       Get(environment)[i] = UserEnvironment[i]
                 /\ \A i \in 1..Len(ProviderEnvironment) :
                       Get(environment)[Len(UserEnvironment) + i] = ProviderEnvironment[i]
            ELSE environment = containerIn.container.environment

C17_Witness ==
    /\ IsSome(assembled.current)
    /\ containerIn.container.image.kind = "provider"
    /\ Get(assembled.current).environment =
          Some(<< KeyValuePair("A", "1"), KeyValuePair("B", "2"),
                  KeyValuePair("C", "3"), KeyValuePair("A", "9") >>)

Assembled ==
    (IF IsSome(assembled.current) THEN <<Get(assembled.current)>> ELSE <<>>)
        \o (IF IsSome(assembled.legacy) THEN <<Get(assembled.legacy)>> ELSE <<>>)

\* C18: the definition keeps the user's logConfiguration when there is one
\* and otherwise has an awslogs configuration for the supplied log group with
\* the container's name as stream prefix; its name is the container name.
C18_LogConfigurationAndName ==
    \A k \in 1..Len(Assembled) :
        /\ Assembled[k].name = Some(containerIn.containerName)
        /\ IF IsSome(containerIn.container.logConfiguration)
           THEN Assembled[k].logConfiguration = Get(containerIn.container.logConfiguration)
           ELSE /\ Assembled[k].logConfiguration.logDriver = "awslogs"
                /\ Assembled[k].logConfiguration.group = containerIn.logGroupId
                /\ Assembled[k].logConfiguration.streamPrefix = containerIn.containerName

C18_Witness ==
    /\ Len(Assembled) = 2
    /\ ~IsSome(containerIn.container.logConfiguration)
    /\ containerIn.container.name = Some("mine")
    /\ containerIn.containerName = "c2"
    /\ \A k \in 1..2 : Assembled[k].logConfiguration.streamPrefix = "c2"

\* ------------------------------------------------------------------------
\* Properties of the defaults of Vpc construction
\* ------------------------------------------------------------------------
ZonesGivenOrDefault ==
    IF IsSome(vpcArgs.numberOfAvailabilityZones)
    THEN Get(vpcArgs.numberOfAvailabilityZones) ELSE 2

GatewaysGivenOrDefault ==
    IF IsSome(vpcArgs.numberOfNatGateways)
    THEN Get(vpcArgs.numberOfNatGateways) ELSE ZonesGivenOrDefault

SubnetsGivenOrDefault ==
    IF IsSome(vpcArgs.subnets) THEN Get(vpcArgs.subnets)
    ELSE << [type |-> "public", cidrMask |-> None], [type |-> "private", cidrMask |-> None] >>

BlockGivenOrDefault ==
    IF IsSome(vpcArgs.cidrBlock) THEN Get(vpcArgs.cidrBlock) ELSE Cidr(10, 0, 0, 0, 16)

TypeCount(type) ==
    Cardinality({ s \in 1..Len(SubnetsGivenOrDefault) : SubnetsGivenOrDefault[s].type = type })

\* C22: an absent cidrBlock is 10.0.0.0/16, an absent numberOfAvailabilityZones
\* is 2, an absent numberOfNatGateways is the (possibly defaulted) zone count
\* and absent subnets are [public, private]; a given value, a gateway count
\* of 0 included, is used as given.
C22_DefaultsApplied ==
    vpc.status # "new" =>
        /\ vpc.error = "tooManyNatGateways" <=> GatewaysGivenOrDefault > ZonesGivenOrDefault
        /\ SubnetsCreated =>
              /\ Len(vpc.publicSubnets) = ZonesGivenOrDefault * TypeCount("public")
              /\ Len(vpc.privateSubnets) = ZonesGivenOrDefault * TypeCount("private")
              /\ Len(vpc.isolatedSubnets) = ZonesGivenOrDefault * TypeCount("isolated")
              /\ \A i \in 1..Len(AllSubnets) :
                    /\ Contains(BlockGivenOrDefault, AllSubnets[i].cidrBlock)
                    /\ AllSubnets[i].type = SubnetsGivenOrDefault[AllSubnets[i].spec].type
              /\ AllSubnets # <<>> =>
                    \E i \in 1..Len(AllSubnets) :
                        AllSubnets[i].cidrBlock.start = BlockGivenOrDefault.start
              /\ Len(vpc.natGateways) =
                    (IF TypeCount("public") > 0 /\ TypeCount("private") > 0
                     THEN GatewaysGivenOrDefault ELSE 0)

C22_Witness ==
    /\ vpc.status = "ok"
    /\ vpcArgs.cidrBlock = None
    /\ vpcArgs.numberOfAvailabilityZones = Some(3)
    /\ vpcArgs.numberOfNatGateways = None
    /\ vpcArgs.subnets = None
    /\ Len(vpc.natGateways) = 3
    /\ Len(vpc.publicSubnets) = 3
    /\ Len(vpc.privateSubnets) = 3

\* ------------------------------------------------------------------------
\* Properties of the exposed port of a task definition
\* ------------------------------------------------------------------------
WithLoadBalancerPort ==
    { i \in 1..Len(taskArgs.containers) : taskArgs.containers[i].loadBalancerPort }

SingleContainerError == "Only a single container can specify a [loadBalancerPort]."

\* C24: with two or more containers that have a loadBalancerPort the
\* construction fails with 'Only a single container can specify a
\* [loadBalancerPort].'; with at most one, a load balancer is created exactly
\* when one container has the port, exposedPort names that container, and
\* endpoints is empty when there is none.
C24_SingleExposedPort ==
    run.status # "new" =>
        IF Cardinality(WithLoadBalancerPort) >= 2
        THEN run.status = "error" /\ run.error = SingleContainerError
        ELSE /\ run.error # SingleContainerError
             /\ Count(run.declared, "awsinfra:x:ClusterLoadBalancer")
                   = Cardinality(WithLoadBalancerPort)
             /\ WithLoadBalancerPort = {} =>
                   run.exposedPort = None /\ run.endpoints = <<>>
             /\ \A i \in WithLoadBalancerPort :
                   /\ run.exposedPort = Some(i)
                   /\ run.status = "ok" =>
                         /\ Len(run.endpoints) = 1
                         /\ run.endpoints[1].containerName = i
                         /\ Len(run.endpoints[1].ports) = 1

C24_Witness ==
    /\ run.status = "ok"
    /\ Len(taskArgs.containers) = 2
    /\ WithLoadBalancerPort = {2}
    /\ run.exposedPort = Some(2)
    /\ Len(run.endpoints) = 1

\* ------------------------------------------------------------------------
\* Properties of the container that run(options) addresses
\* ------------------------------------------------------------------------
\* The container the caller asked for, or the first declared one.
SelectedContainer ==
    IF IsSome(runTaskIn.options.containerName) THEN runTaskIn.options.containerName
    ELSE IF Len(runTaskIn.containerToEnvironment) > 0
         THEN Some(runTaskIn.containerToEnvironment[1].name)
         ELSE None

DefinitionEnvironment ==
    LET declared == { i \in 1..Len(runTaskIn.containerToEnvironment) :
                         Some(runTaskIn.containerToEnvironment[i].name) = SelectedContainer }
    IN  IF declared = {} THEN <<>>
        ELSE LET e == runTaskIn.containerToEnvironment[CHOOSE i \in declared : TRUE].environment
             IN  IF IsSome(e) THEN Get(e) ELSE <<>>

OptionsEnvironment ==
    IF IsSome(runTaskIn.options.environment) THEN Get(runTaskIn.options.environment) ELSE <<>>

\* C25 (as claimed): run(options) fails with 'No valid container name found'
\* when no container is named and none is declared; otherwise its environment
\* override is addressed to the selected container (the named one, or the
\* first declared) and holds the definition's variables followed by those of
\* options.environment.
C25_OverrideAddressedToSelected ==
    runTaskOut.status # "new" =>
        IF SelectedContainer = None
        THEN /\ runTaskOut.status = "thrown"
             /\ runTaskOut.error = "No valid container name found to run task for."
        ELSE /\ IsSome(runTaskOut.request)
             /\ LET overrides == Get(runTaskOut.request).containerOverrides
                IN  /\ Len(overrides) = 1
                    /\ Some(overrides[1].name) = SelectedContainer
                    /\ overrides[1].environment = DefinitionEnvironment \o OptionsEnvironment

\* ------------------------------------------------------------------------
\* Properties of the lifetime of the build image cache
\* ------------------------------------------------------------------------
\* C26: every step of a run keeps each entry of the build image cache, under
\* the same key and with the same image reference: entries are never removed
\* and never replaced, and the cached keys only grow.
C26_CacheOnlyGrows ==
    [][ /\ \A i \in 1..Len(run.buildImageCache) :
              /\ CacheHas(run'.buildImageCache, run.buildImageCache[i].key)
              /\ CacheGet(run'.buildImageCache, run.buildImageCache[i].key)
                    = run.buildImageCache[i].value
        /\ \A i, j \in 1..Len(run'.buildImageCache) :
              i # j => run'.buildImageCache[i].key # run'.buildImageCache[j].key
        /\ Len(run'.buildImageCache) >= Len(run.buildImageCache) ]_vars

C26_Witness ==
    /\ Len(run.buildImageCache) = 2
    /\ Len(run.images) = 3
    /\ run.pending = <<>>
    /\ run.images[3].imageName = run.buildImageCache[1].key
    /\ run.images[3].image = run.buildImageCache[1].value

\* ------------------------------------------------------------------------
\* Properties of Vpc.getDefault and of a Vpc over an existing VPC
\* ------------------------------------------------------------------------
\* The number of times the 'default-vpc' component has been registered.
RECURSIVE DefaultVpcRegistrations(_)
DefaultVpcRegistrations(calls) ==
    IF calls = <<>> THEN 0
    ELSE Count(calls[1].registered, "default-vpc")
            + DefaultVpcRegistrations(Tail(calls))

\* C21: the first call of Vpc.getDefault returns a Vpc component for the
\* account's default VPC, every later call returns that same instance, and
\* the 'default-vpc' component is declared once.
C21_DefaultVpcOnce ==
    getDefaultCalls # <<>> =>
        /\ IsSome(getDefaultCalls[1].result)
        /\ Get(getDefaultCalls[1].result).vpcId = Some(Output(awsAccount.vpcId))
        /\ \A i \in 1..Len(getDefaultCalls) :
              getDefaultCalls[i].result = getDefaultCalls[1].result
        /\ DefaultVpcRegistrations(getDefaultCalls) = 1

Values(outputs) == [i \in 1..Len(outputs) |-> outputs[i].output]

GivenOrEmpty(ids) == IF IsSome(ids) THEN Get(ids) ELSE <<>>

\* C28: a Vpc constructed from ExistingVpcArgs declares no resource and
\* republishes the given vpcId and each given id list (publicSubnetIds,
\* privateSubnetIds, isolatedSubnetIds, securityGroupIds) in the same order;
\* a list that was not given is republished as empty.
C28_ExistingVpcRepublished ==
    existingVpc.status = "ok" =>
        /\ existingVpc.declared = <<>>
        /\ existingVpc.publicSubnets = <<>> /\ existingVpc.privateSubnets = <<>>
        /\ existingVpc.isolatedSubnets = <<>> /\ existingVpc.natGateways = <<>>
        /\ existingVpc.internetGateway = None
        /\ existingVpc.vpcId = Some(Output(existingIn.args.vpcId))
        /\ Values(existingVpc.publicSubnetIds)
              = GivenOrEmpty(existingIn.args.publicSubnetIds)
        /\ Values(existingVpc.privateSubnetIds)
              = GivenOrEmpty(existingIn.args.privateSubnetIds)
        /\ Values(existingVpc.isolatedSubnetIds)
              = GivenOrEmpty(existingIn.args.isolatedSubnetIds)
        /\ Values(existingVpc.securityGroupIds)
              = GivenOrEmpty(existingIn.args.securityGroupIds)

\* ------------------------------------------------------------------------
\* Properties of withAliases
\* ------------------------------------------------------------------------
\* C29: withAliases(opts, aliases) returns options whose aliases are the
\* aliases already in opts, in order, followed by the new aliases, in order;
\* every other field of opts is carried over and opts is not modified.
C29_AliasesAppended ==
    aliasOut.status = "ok" =>
        /\ aliasOut.result.aliases
              = Some(GivenOrEmpty(aliasIn.opts.aliases) \o aliasIn.aliases)
        /\ aliasOut.result.parent = aliasIn.opts.parent
        /\ aliasOut.opts = aliasIn.opts

\* ------------------------------------------------------------------------
\* Properties of getEndpoint
\* ------------------------------------------------------------------------
\* The container the call selects: the one named, else the first.
SelectedEndpointContainer ==
    IF IsSome(endpointIn.containerName) THEN endpointIn.containerName
    ELSE IF endpointIn.endpoints = <<>> THEN None
    ELSE Some(endpointIn.endpoints[1].containerName)

SelectedContainerPorts ==
    containerPortsOf(endpointIn.endpoints, Get(SelectedEndpointContainer))

\* The port the call selects: the one given, else the first of the container.
SelectedPort ==
    IF IsSome(endpointIn.containerPort) THEN endpointIn.containerPort
    ELSE Some(SelectedContainerPorts[1].port)

\* C27: getEndpoint fails with 'No containers available in this service' when
\* there is no container to select, with 'No ports available in service
\* container <name>' when the selected container has no ports, and with 'No
\* exposed port for <name> port <port>' when the selected port is not exposed;
\* otherwise it returns the endpoint of the selected container and port, an
\* omitted name selecting the first container and an omitted port its first
\* port.
C27_EndpointOrError ==
    endpointOut.status # "new" =>
        IF ~IsSome(SelectedEndpointContainer)
        THEN endpointOut =
                EndpointError("No containers available in this service", None, None)
        ELSE IF SelectedContainerPorts = <<>>
        THEN endpointOut =
                EndpointError("No ports available in service container",
                              SelectedEndpointContainer, None)
        ELSE IF ~IsSome(endpointAt(SelectedContainerPorts, Get(SelectedPort)))
        THEN endpointOut =
                EndpointError("No exposed port for", SelectedEndpointContainer,
                              SelectedPort)
        ELSE /\ endpointOut.status = "ok"
             /\ endpointOut.endpoint =
                   endpointAt(SelectedContainerPorts, Get(SelectedPort))

\* ------------------------------------------------------------------------
\* Properties of getRequestLambdaAuthorizerDefinition
\* ------------------------------------------------------------------------
\* C23: getRequestLambdaAuthorizerDefinition fails when given no parameters;
\* with exactly one parameter it returns that parameter's name and location;
\* with two or more it returns parameterName "Unused" and location "header";
\* in every successful case identitySource has one entry per parameter,
\* 'method.request.header.<key>' for header and
\* 'method.request.querystring.<key>' for query, in parameter order.
C23_AuthorizerDefinition ==
    authorizer.status # "new" =>
        LET parameters == authorizerArgs.parameters
        IN /\ Len(parameters) = 0 => authorizer.status = "error"
           /\ Len(parameters) = 1 =>
                 /\ authorizer.status = "ok"
                 /\ authorizer.parameterName = parameters[1].key
                 /\ authorizer.parameterLocation = parameters[1].location
           /\ Len(parameters) >= 2 =>
                 /\ authorizer.status = "ok"
                 /\ authorizer.parameterName = "Unused"
                 /\ authorizer.parameterLocation = "header"
           /\ authorizer.status = "ok" =>
                 /\ Len(authorizer.identitySource) = Len(parameters)
                 /\ \A i \in 1..Len(parameters) :
                       /\ parameters[i].location = "header" =>
                             authorizer.identitySource[i]
                                = "method.request.header." \o parameters[i].key
                       /\ parameters[i].location = "query" =>
                             authorizer.identitySource[i]
                                = "method.request.querystring." \o parameters[i].key

C23_Witness ==
    /\ authorizer.status = "ok"
    /\ Len(authorizerArgs.parameters) = 2
    /\ authorizerArgs.parameters[1] = Parameter("token", "query")
    /\ authorizerArgs.parameters[2] = Parameter("Authorization", "header")
    /\ authorizer.identitySource = << "method.request.querystring.token",
                                      "method.request.header.Authorization" >>
    /\ authorizer.parameterName = "Unused"

\* ------------------------------------------------------------------------
\* Properties of promiseResult
\* ------------------------------------------------------------------------
PromiseCallEnded == promiseCall.pc \in {"returned", "thrown"}

\* The call has ended only after the promise settled, with the outcome of
\* the promise, and its state has left running once.
PromiseOutcome ==
    PromiseCallEnded =>
        /\ promise.state # "pending"
        /\ promiseCall.left = 1
        /\ promise.state = "fulfilled" =>
              promiseCall.pc = "returned" /\ promiseCall.outcome = promise.value
        /\ promise.state = "rejected" =>
              promiseCall.pc = "thrown" /\ promiseCall.outcome = promise.value

\* The state of the call is running as long as the promise is unsettled and
\* never goes back to running or changes a second time.
PromiseStateLeftOnce ==
    /\ promise.state = "pending" => promiseCall.state = "running"
    /\ promiseCall.left <= 1
    /\ promiseCall.left = 1 <=> promiseCall.state # "running"

\* C30: promiseResult(promise) never returns while the promise is unsettled;
\* once the promise settles the call leaves the running state exactly once
\* and terminates, returning the fulfilled value when the promise was
\* fulfilled and throwing the rejection reason when it was rejected.
C30_PromiseResult ==
    /\ [](PromiseOutcome /\ PromiseStateLeftOnce)
    /\ [][promiseCall.state # "running" => promiseCall'.state = promiseCall.state]_vars
    /\ (promiseCall.pc = "loopWhile" /\ promise.state # "pending") ~> PromiseCallEnded

C30_Witness ==
    /\ promiseCall.pc = "thrown"
    /\ promise = Rejected("e2")
    /\ promiseCall.outcome = Some("e2")
    /\ promiseCall.turns >= 2
    /\ promiseCall.left = 1

====
